---- MODULE Spec2Model ----
(***************************************************************************)
(* Operator rules of the reverse-mode AD engine (include/ad/OpTraits.h)    *)
(* together with the epoch-tagged accumulation protocol they rely on.      *)
(*                                                                         *)
(* Scalars are modelled by integers.  The graphs and the values fed to     *)
(* them are chosen so that every double the code computes is an integer    *)
(* (divisors are -1, 0 or 1, Log is taken at 0 or 1, Softmax has one       *)
(* input), hence the integer arithmetic below is the arithmetic of the     *)
(* code on those inputs.                                                   *)
(***************************************************************************)
EXTENDS Integers, Sequences, FiniteSets

\* ------------------------------------------------------------------ bounds
MaxPasses == 2   \* reverse passes (backward or hvp_backward) per behaviour
MaxArity == 3    \* largest arity of the generated Multiply nodes

NULL == 0        \* a null entry of ADNode::inputs
NegInf == -1000  \* stands for the double -infinity (std::log(0.0))
\* stands for the double sqrt(2.0 / M_PI) = 0.7978845608028654: a number
\* a + b * SqrtTwoOverPi of the model, a far smaller than SqrtTwoOverPi, is the
\* double a + b * 0.7978845608028654
SqrtTwoOverPi == 10000

Vals == {0, 1, 2}   \* values fed to the leaves
Dots == {0, 1}      \* tangents fed to the Var leaves
\* adjoint seeds <<gradient, grad_dot>> a caller writes before a reverse pass
BackwardSeeds == {<<1, 0>>, <<2, 0>>}
HvpSeeds == {<<1, 0>>, <<2, 1>>}
Junk == {0, 1}   \* what a read through a null input may yield

VARIABLES
    nodes,    \* node id -> ADNode (op, inputs and the four slots with tags)
    g,        \* ADGraph: the four epoch counters
    tls,      \* the calling thread's scratch vectors
    phase,    \* pass the scheduler is running, or "idle"
    pos,      \* node the scheduler visits next
    crashed,  \* a null input was dereferenced and the process died
    last,     \* the most recent rule invocation: pass, node, state before it
    acc,      \* per node: contributions received in the current reverse pass
    prev,     \* the tangent and grad_dot of the leaves when the tangent was changed
    thr       \* worker threads: each one's scratch vectors, work list and position

vars == <<nodes, g, tls, phase, pos, crashed, last, acc, prev, thr>>

N == Len(nodes)
Ids == 1 .. N

\* ------------------------------------------------ epoch protocol (ADGraph.h)
touch_epoch(nd, tag, cur) == [nd EXCEPT ![tag] = cur]

set_epoch_value(nd, slot, tag, cur, v) == [nd EXCEPT ![slot] = v, ![tag] = cur]

ensure_epoch_zero(nd, slot, tag, cur) ==
    IF nd[tag] # cur THEN [nd EXCEPT ![slot] = 0, ![tag] = cur] ELSE nd

\* ensure_epoch_zero(a->slot, a->tag, cur) += d, on the node behind pointer a.
\* A store through a null pointer that did not kill the process is lost.
AccumInto(ns, a, slot, tag, cur, d) ==
    IF a = NULL THEN ns
    ELSE [ns EXCEPT ![a] =
            LET z == ensure_epoch_zero(@, slot, tag, cur)
            IN  [z EXCEPT ![slot] = @ + d]]

\* a->value, a->dot, where a null pointer that did not kill the process
\* reads junk
ValOf(ns, a, junk) == IF a = NULL THEN junk ELSE ns[a].value
DotOf(ns, a, junk) == IF a = NULL THEN junk ELSE ns[a].dot

\* ----------------------------------------------------------- tiny helpers
Abs(a) == IF a < 0 THEN -a ELSE a

\* a / b where b divides a, the only quotients the model meets
Quot(a, b) == CHOOSE q \in -Abs(a) .. Abs(a) : q * b = a

safe_div(a, b) == IF b # 0 THEN Quot(a, b) ELSE 0

unary_ok(nd) == Len(nd.inputs) = 1 /\ nd.inputs[1] # NULL

binary_ok(nd) == Len(nd.inputs) = 2 /\ nd.inputs[1] # NULL /\ nd.inputs[2] # NULL

\* a slip the predicate could make: no check at all
nary_ok_always(nd) == TRUE

nary_ok(nd) == nd.inputs # <<>>

\* ------------------------------------------------------ nullary: cte / Var
Nullary_forward(ns, gr, n) ==
    [ns EXCEPT ![n] = touch_epoch(@, "val_epoch", gr.cur_val_epoch_)]

Nullary_forward_dot(ns, gr, n) ==
    [ns EXCEPT ![n] = touch_epoch(touch_epoch(@, "dot_epoch", gr.cur_dot_epoch_),
                                  "val_epoch", gr.cur_val_epoch_)]

\* ------------------------------------------------------ concrete unary rules
\* <cmath> at the arguments where the result is a number of the model
Sin(x) == CASE x = 0 -> 0
Cos(x) == CASE x = 0 -> 1
Tan(x) == CASE x = 0 -> 0
Exp(d) == CASE d = 0 -> 1
Tanh(x) == CASE x = 0 -> 0
Erf(z) == CASE z = 0 -> 0

SinRule_f(x) == Sin(x)
SinRule_df(x) == Cos(x)
SinRule_d2(x) == -Sin(x)

CosRule_f(x) == Cos(x)
CosRule_df(x) == -Sin(x)
CosRule_d2(x) == -Cos(x)

ExpRule_f(x) == Exp(x)
ExpRule_df(x) == Exp(x)
ExpRule_d2(x) == Exp(x)

LogRule_f(x) == IF x = 0 THEN NegInf ELSE 0          \* log(0) = -inf, log(1) = 0
LogRule_df(x) == IF x # 0 THEN Quot(1, x) ELSE 0
LogRule_d2(x) == IF x # 0 THEN Quot(-1, x * x) ELSE 0

LogRule_forward_dot(ns, gr, n) ==
    LET a == ns[n].inputs[1]
        x == ns[a].value
        d == IF x # 0 THEN Quot(ns[a].dot, x) ELSE 0
    IN  [ns EXCEPT ![n] = touch_epoch(
            set_epoch_value(@, "dot", "dot_epoch", gr.cur_dot_epoch_, d),
            "val_epoch", gr.cur_val_epoch_)]

TanRule_f(x) == Tan(x)
TanRule_df(x) == LET c == Cos(x) IN IF c # 0 THEN Quot(1, c * c) ELSE 0
TanRule_d2(x) ==
    LET s == Sin(x)
        c == Cos(x)
    IN  IF c # 0 THEN Quot(2 * s, c * c * c) ELSE 0

TanRule_forward_dot(ns, gr, n) ==
    LET a == ns[n].inputs[1]
        c == Cos(ns[a].value)
        d == IF c # 0 THEN Quot(ns[a].dot, c * c) ELSE 0
    IN  [ns EXCEPT ![n] = touch_epoch(
            set_epoch_value(@, "dot", "dot_epoch", gr.cur_dot_epoch_, d),
            "val_epoch", gr.cur_val_epoch_)]

TanhRule_f(x) == Tanh(x)
TanhRule_df(x) == LET t == Tanh(x) IN 1 - t * t
TanhRule_d2(x) ==
    LET t == Tanh(x)
        s2 == 1 - t * t
    IN  -2 * t * s2

\* _sigmoid(x) counted in halves: sigmoid(0) = 1/2
sigmoid(x) == CASE x = 0 -> 1

\* df and d2 of Silu and Gelu are counted in halves too: s below is twice the
\* sigmoid, and each result twice the double the code returns
SiLURule_f(x) == LET s == sigmoid(x) IN Quot(x * s, 2)
SiLURule_df(x) == LET s == sigmoid(x) IN Quot(s * (2 + x * (2 - s)), 2)
SiLURule_d2(x) ==
    LET s == sigmoid(x)
        sp == s * (2 - s)           \* four times sigma'
    IN  Quot(sp * (2 + x * (1 - s)), 2)

\* A = sqrt(2 / pi) * exp(-x * x / 2)
GELU_A(x) == SqrtTwoOverPi * Exp(Quot(-(x * x), 2))

GELURule_f(x) == Quot(x * (1 + Erf(x)), 2)
GELURule_df(x) == (1 + Erf(x)) + x * GELU_A(x)
GELURule_d2(x) == GELU_A(x) * (2 - x * x)

ReluRule_f(x) == IF x > 0 THEN x ELSE 0
ReluRule_df(x) == IF x > 0 THEN 1 ELSE 0
ReluRule_d2(x) == 0

UnaryOps == {"Sin", "Cos", "Exp", "Log", "Tan", "Tanh", "Silu", "Gelu", "Relu"}

\* the rules with a forward_dot of their own
CustomDot == {"Log", "Tan"}

\* the unit Rule_df and Rule_d2 are counted in: halves for Silu and Gelu
Rule_den(R) == IF R \in {"Silu", "Gelu"} THEN 2 ELSE 1

Rule_f(R, x) ==
    CASE R = "Sin" -> SinRule_f(x)
      [] R = "Cos" -> CosRule_f(x)
      [] R = "Exp" -> ExpRule_f(x)
      [] R = "Log" -> LogRule_f(x)
      [] R = "Tan" -> TanRule_f(x)
      [] R = "Tanh" -> TanhRule_f(x)
      [] R = "Silu" -> SiLURule_f(x)
      [] R = "Gelu" -> GELURule_f(x)
      [] R = "Relu" -> ReluRule_f(x)
Rule_df(R, x) ==
    CASE R = "Sin" -> SinRule_df(x)
      [] R = "Cos" -> CosRule_df(x)
      [] R = "Exp" -> ExpRule_df(x)
      [] R = "Log" -> LogRule_df(x)
      [] R = "Tan" -> TanRule_df(x)
      [] R = "Tanh" -> TanhRule_df(x)
      [] R = "Silu" -> SiLURule_df(x)
      [] R = "Gelu" -> GELURule_df(x)
      [] R = "Relu" -> ReluRule_df(x)
Rule_d2(R, x) ==
    CASE R = "Sin" -> SinRule_d2(x)
      [] R = "Cos" -> CosRule_d2(x)
      [] R = "Exp" -> ExpRule_d2(x)
      [] R = "Log" -> LogRule_d2(x)
      [] R = "Tan" -> TanRule_d2(x)
      [] R = "Tanh" -> TanhRule_d2(x)
      [] R = "Silu" -> SiLURule_d2(x)
      [] R = "Gelu" -> GELURule_d2(x)
      [] R = "Relu" -> ReluRule_d2(x)

Rule_forward_dot(R, ns, gr, n) ==
    IF R = "Log" THEN LogRule_forward_dot(ns, gr, n)
    ELSE TanRule_forward_dot(ns, gr, n)

\* ------------------------------------------------------ generic unary plumbing
UnaryOp_forward(ns, gr, n, R) ==
    IF ~unary_ok(ns[n]) THEN ns
    ELSE LET a == ns[n].inputs[1]
         IN  [ns EXCEPT ![n] = set_epoch_value(@, "value", "val_epoch",
                                   gr.cur_val_epoch_, Rule_f(R, ns[a].value))]

\* a slip the template could make: the value tag touched with the wrong counter
UnaryOp_forward_dot_wrong_counter(ns, gr, n, R) ==
    IF ~unary_ok(ns[n]) THEN ns
    ELSE IF R \in CustomDot THEN Rule_forward_dot(R, ns, gr, n)
    ELSE LET a == ns[n].inputs[1]
         IN  [ns EXCEPT ![n] = touch_epoch(
                 set_epoch_value(@, "dot", "dot_epoch", gr.cur_dot_epoch_,
                                 Quot(Rule_df(R, ns[a].value) * ns[a].dot,
                                      Rule_den(R))),
                 "val_epoch", gr.cur_grad_epoch_)]

UnaryOp_forward_dot(ns, gr, n, R) ==
    IF ~unary_ok(ns[n]) THEN ns
    ELSE IF R \in CustomDot THEN Rule_forward_dot(R, ns, gr, n)
    ELSE LET a == ns[n].inputs[1]
         IN  [ns EXCEPT ![n] = touch_epoch(
                 set_epoch_value(@, "dot", "dot_epoch", gr.cur_dot_epoch_,
                                 Quot(Rule_df(R, ns[a].value) * ns[a].dot,
                                      Rule_den(R))),
                 "val_epoch", gr.cur_val_epoch_)]

UnaryOp_backward(ns, gr, n, R) ==
    IF ~unary_ok(ns[n]) THEN ns
    ELSE LET a == ns[n].inputs[1]
         IN  AccumInto(ns, a, "gradient", "grad_epoch", gr.cur_grad_epoch_,
                       Quot(ns[n].gradient * Rule_df(R, ns[a].value), Rule_den(R)))

\* a slip the template could make: the input's slots cleared on every
\* accumulation (set_epoch_value where the code has ensure_epoch_zero +=)
UnaryOp_hvp_backward_reclear(ns, gr, n, R) ==
    IF ~unary_ok(ns[n]) THEN ns
    ELSE LET a == ns[n].inputs[1]
             x == ns[a].value
             xdot == ns[a].dot
             df == Rule_df(R, x)
         IN  [ns EXCEPT ![a] =
                set_epoch_value(
                    set_epoch_value(@, "gradient", "grad_epoch", gr.cur_grad_epoch_,
                                    Quot(ns[n].gradient * df, Rule_den(R))),
                    "grad_dot", "gdot_epoch", gr.cur_gdot_epoch_,
                    Quot(ns[n].grad_dot * df
                         + ns[n].gradient * Rule_d2(R, x) * xdot,
                         Rule_den(R)))]

UnaryOp_hvp_backward(ns, gr, n, R) ==
    IF ~unary_ok(ns[n]) THEN ns
    ELSE LET a == ns[n].inputs[1]
             x == ns[a].value
             xdot == ns[a].dot
             df == Rule_df(R, x)
             s1 == AccumInto(ns, a, "gradient", "grad_epoch", gr.cur_grad_epoch_,
                             Quot(ns[n].gradient * df, Rule_den(R)))
         IN  AccumInto(s1, a, "grad_dot", "gdot_epoch", gr.cur_gdot_epoch_,
                       Quot(ns[n].grad_dot * df
                            + ns[n].gradient * Rule_d2(R, x) * xdot,
                            Rule_den(R)))

\* ------------------------------------------------------ concrete binary rules
SubRule_f(a, b) == a - b
SubRule_dfa(a, b) == 1
SubRule_dfb(a, b) == -1

DivRule_f(a, b) == safe_div(a, b)
\* a slip the rule could make: 1.0 / b without the guard (+infinity at b = 0)
DivRule_dfa_unguarded(a, b) == IF b # 0 THEN Quot(1, b) ELSE -NegInf
DivRule_dfa(a, b) == IF b # 0 THEN Quot(1, b) ELSE 0
DivRule_dfb(a, b) == IF b # 0 THEN Quot(-a, b * b) ELSE 0
DivRule_d2ab(a, b) == IF b # 0 THEN Quot(-1, b * b) ELSE 0
DivRule_d2bb(a, b) == IF b # 0 THEN Quot(2 * a, b * b * b) ELSE 0

DivRule_forward_dot(ns, gr, n) ==
    LET a == ns[n].inputs[1]
        b == ns[n].inputs[2]
        d == ns[b].value
        v == IF d # 0 THEN Quot(ns[a].dot * d - ns[a].value * ns[b].dot, d * d)
             ELSE 0
    IN  [ns EXCEPT ![n] = touch_epoch(
            set_epoch_value(@, "dot", "dot_epoch", gr.cur_dot_epoch_, v),
            "val_epoch", gr.cur_val_epoch_)]

BinaryOps == {"Subtract", "Divide"}

BRule_f(R, a, b) == IF R = "Divide" THEN DivRule_f(a, b) ELSE SubRule_f(a, b)
BRule_dfa(R, a, b) == IF R = "Divide" THEN DivRule_dfa(a, b) ELSE SubRule_dfa(a, b)
BRule_dfb(R, a, b) == IF R = "Divide" THEN DivRule_dfb(a, b) ELSE SubRule_dfb(a, b)
BRule_d2aa(R, a, b) == 0
BRule_d2ab(R, a, b) == IF R = "Divide" THEN DivRule_d2ab(a, b) ELSE 0
BRule_d2bb(R, a, b) == IF R = "Divide" THEN DivRule_d2bb(a, b) ELSE 0

\* ------------------------------------------------------ generic binary plumbing
BinaryOp_forward(ns, gr, n, R) ==
    IF ~binary_ok(ns[n]) THEN ns
    ELSE LET a == ns[n].inputs[1]
             b == ns[n].inputs[2]
         IN  [ns EXCEPT ![n] = set_epoch_value(@, "value", "val_epoch",
                 gr.cur_val_epoch_, BRule_f(R, ns[a].value, ns[b].value))]

BinaryOp_forward_dot(ns, gr, n, R) ==
    IF ~binary_ok(ns[n]) THEN ns
    ELSE IF R = "Divide" THEN DivRule_forward_dot(ns, gr, n)
    ELSE LET a == ns[n].inputs[1]
             b == ns[n].inputs[2]
             A == ns[a].value
             B == ns[b].value
         IN  [ns EXCEPT ![n] = touch_epoch(
                 set_epoch_value(@, "dot", "dot_epoch", gr.cur_dot_epoch_,
                     BRule_dfa(R, A, B) * ns[a].dot + BRule_dfb(R, A, B) * ns[b].dot),
                 "val_epoch", gr.cur_val_epoch_)]

BinaryOp_backward(ns, gr, n, R) ==
    IF ~binary_ok(ns[n]) THEN ns
    ELSE LET a == ns[n].inputs[1]
             b == ns[n].inputs[2]
             A == ns[a].value
             B == ns[b].value
             w == ns[n].gradient
             s1 == AccumInto(ns, a, "gradient", "grad_epoch", gr.cur_grad_epoch_,
                             w * BRule_dfa(R, A, B))
         IN  AccumInto(s1, b, "gradient", "grad_epoch", gr.cur_grad_epoch_,
                       w * BRule_dfb(R, A, B))

BinaryOp_hvp_backward(ns, gr, n, R) ==
    IF ~binary_ok(ns[n]) THEN ns
    ELSE LET a == ns[n].inputs[1]
             b == ns[n].inputs[2]
             A == ns[a].value
             B == ns[b].value
             Ad == ns[a].dot
             Bd == ns[b].dot
             w == ns[n].gradient
             wd == ns[n].grad_dot
             s1 == AccumInto(ns, a, "gradient", "grad_epoch", gr.cur_grad_epoch_,
                             w * BRule_dfa(R, A, B))
             s2 == AccumInto(s1, b, "gradient", "grad_epoch", gr.cur_grad_epoch_,
                             w * BRule_dfb(R, A, B))
             s3 == AccumInto(s2, a, "grad_dot", "gdot_epoch", gr.cur_gdot_epoch_,
                             wd * BRule_dfa(R, A, B)
                             + w * (BRule_d2aa(R, A, B) * Ad + BRule_d2ab(R, A, B) * Bd))
         IN  AccumInto(s3, b, "grad_dot", "gdot_epoch", gr.cur_gdot_epoch_,
                       wd * BRule_dfb(R, A, B)
                       + w * (BRule_d2ab(R, A, B) * Ad + BRule_d2bb(R, A, B) * Bd))

\* ------------------------------------------------------ n-ary sum
RECURSIVE SumVals(_, _, _, _)
\* for (auto &a : n.inputs) s += a->value;   over the first k inputs
SumVals(ns, ins, k, junk) ==
    IF k = 0 THEN 0 ELSE SumVals(ns, ins, k - 1, junk) + ValOf(ns, ins[k], junk)

RECURSIVE SumDots(_, _, _, _)
SumDots(ns, ins, k, junk) ==
    IF k = 0 THEN 0 ELSE SumDots(ns, ins, k - 1, junk) + DotOf(ns, ins[k], junk)

Add_forward(ns, gr, n, junk) ==
    IF ~nary_ok(ns[n]) THEN ns
    ELSE [ns EXCEPT ![n] = set_epoch_value(@, "value", "val_epoch", gr.cur_val_epoch_,
                               SumVals(ns, ns[n].inputs, Len(ns[n].inputs), junk))]

Add_forward_dot(ns, gr, n, junk) ==
    IF ~nary_ok(ns[n]) THEN ns
    ELSE [ns EXCEPT ![n] = touch_epoch(
             set_epoch_value(@, "dot", "dot_epoch", gr.cur_dot_epoch_,
                             SumDots(ns, ns[n].inputs, Len(ns[n].inputs), junk)),
             "val_epoch", gr.cur_val_epoch_)]

RECURSIVE Add_backward_loop(_, _, _, _)
\* the loop body applied to inputs 1..k, in order
Add_backward_loop(ns, gr, n, k) ==
    IF k = 0 THEN ns
    ELSE AccumInto(Add_backward_loop(ns, gr, n, k - 1), ns[n].inputs[k],
                   "gradient", "grad_epoch", gr.cur_grad_epoch_, ns[n].gradient)

RECURSIVE Add_backward_loop_no_clear(_, _, _, _)
Add_backward_loop_no_clear(ns, gr, n, k) ==
    IF k = 0 THEN ns
    ELSE LET s0 == Add_backward_loop_no_clear(ns, gr, n, k - 1)
             a == ns[n].inputs[k]
         IN  IF a = NULL THEN s0
             ELSE [s0 EXCEPT ![a].gradient = @ + ns[n].gradient,
                             ![a].grad_epoch = gr.cur_grad_epoch_]

\* a slip the rule could make: a->gradient += n.gradient on the bare slot, with
\* the tag brought up to date but the value of an earlier pass left in place
Add_backward_no_clear(ns, gr, n, junk) ==
    IF ~nary_ok(ns[n]) THEN ns
    ELSE Add_backward_loop_no_clear(ns, gr, n, Len(ns[n].inputs))

Add_backward(ns, gr, n, junk) ==
    IF ~nary_ok(ns[n]) THEN ns
    ELSE Add_backward_loop(ns, gr, n, Len(ns[n].inputs))

RECURSIVE Add_hvp_backward_loop(_, _, _, _)
Add_hvp_backward_loop(ns, gr, n, k) ==
    IF k = 0 THEN ns
    ELSE LET s0 == Add_hvp_backward_loop(ns, gr, n, k - 1)
             s1 == AccumInto(s0, ns[n].inputs[k], "gradient", "grad_epoch",
                             gr.cur_grad_epoch_, ns[n].gradient)
         IN  AccumInto(s1, ns[n].inputs[k], "grad_dot", "gdot_epoch",
                       gr.cur_gdot_epoch_, ns[n].grad_dot)

Add_hvp_backward(ns, gr, n, junk) ==
    IF ~nary_ok(ns[n]) THEN ns
    ELSE Add_hvp_backward_loop(ns, gr, n, Len(ns[n].inputs))

\* ------------------------------------------------------ n-ary multiply
RECURSIVE PrefixProd(_, _)
\* pre[k] of build_prefix_suffix: vals[0] * ... * vals[k-1]
PrefixProd(vals, k) == IF k = 0 THEN 1 ELSE PrefixProd(vals, k - 1) * vals[k]

RECURSIVE SuffixProd(_, _)
\* suf[k] of build_prefix_suffix (k counted from 0): vals[k] * ... * vals[m-1]
SuffixProd(vals, k) ==
    IF k >= Len(vals) THEN 1 ELSE SuffixProd(vals, k + 1) * vals[k + 1]

\* pre and suf as sequences: element i+1 here is element i of the vector
build_prefix_suffix(vals) ==
    [pre |-> [i \in 1 .. Len(vals) + 1 |-> PrefixProd(vals, i - 1)],
     suf |-> [i \in 1 .. Len(vals) + 1 |-> SuffixProd(vals, i - 1)]]

\* vals[i] = n.inputs[i]->value, dots[i] = n.inputs[i]->dot
GatherVals(ns, n, junk) ==
    [i \in 1 .. Len(ns[n].inputs) |-> ValOf(ns, ns[n].inputs[i], junk)]
GatherDots(ns, n, junk) ==
    [i \in 1 .. Len(ns[n].inputs) |-> DotOf(ns, ns[n].inputs[i], junk)]

\* pre[i] * suf[i+1] for the input at position i (counted from 1)
P_wo(ps, i) == ps.pre[i] * ps.suf[i + 1]

RECURSIVE MulVals(_, _, _, _)
\* for (auto &a : n.inputs) p *= a->value;
MulVals(ns, ins, k, junk) ==
    IF k = 0 THEN 1 ELSE MulVals(ns, ins, k - 1, junk) * ValOf(ns, ins[k], junk)

\* a slip the rule could make: n.value = p, without set_epoch_value
Multiply_forward_untagged(ns, gr, n, junk) ==
    IF ~nary_ok(ns[n]) THEN ns
    ELSE [ns EXCEPT ![n].value = MulVals(ns, ns[n].inputs, Len(ns[n].inputs), junk)]

Multiply_forward(ns, gr, n, junk) ==
    IF ~nary_ok(ns[n]) THEN ns
    ELSE [ns EXCEPT ![n] = set_epoch_value(@, "value", "val_epoch", gr.cur_val_epoch_,
                               MulVals(ns, ns[n].inputs, Len(ns[n].inputs), junk))]

RECURSIVE Multiply_ds(_, _, _)
\* ds += dots[i] * pre[i] * suf[i + 1], for the first k inputs
Multiply_ds(dots, ps, k) ==
    IF k = 0 THEN 0 ELSE Multiply_ds(dots, ps, k - 1) + dots[k] * ps.pre[k] * ps.suf[k + 1]

Multiply_forward_dot(ns, gr, n, junk) ==
    IF ~nary_ok(ns[n]) THEN ns
    ELSE LET vals == GatherVals(ns, n, junk)
             dots == GatherDots(ns, n, junk)
             ps == build_prefix_suffix(vals)
         IN  [ns EXCEPT ![n] = touch_epoch(
                 set_epoch_value(@, "dot", "dot_epoch", gr.cur_dot_epoch_,
                                 Multiply_ds(dots, ps, Len(vals))),
                 "val_epoch", gr.cur_val_epoch_)]

RECURSIVE Multiply_backward_loop(_, _, _, _, _)
Multiply_backward_loop(ns, gr, n, ps, k) ==
    IF k = 0 THEN ns
    ELSE AccumInto(Multiply_backward_loop(ns, gr, n, ps, k - 1), ns[n].inputs[k],
                   "gradient", "grad_epoch", gr.cur_grad_epoch_,
                   ns[n].gradient * P_wo(ps, k))

RECURSIVE Multiply_backward_naive_loop(_, _, _, _, _)
Multiply_backward_naive_loop(ns, gr, n, vals, k) ==
    IF k = 0 THEN ns
    ELSE AccumInto(Multiply_backward_naive_loop(ns, gr, n, vals, k - 1),
                   ns[n].inputs[k], "gradient", "grad_epoch", gr.cur_grad_epoch_,
                   ns[n].gradient * safe_div(ns[n].value, vals[k]))

\* a shortcut the rule could take: the product without input i as value / v_i,
\* with the guarded division
Multiply_backward_naive(ns, gr, n, junk) ==
    IF ~nary_ok(ns[n]) THEN ns
    ELSE Multiply_backward_naive_loop(ns, gr, n, GatherVals(ns, n, junk),
                                      Len(ns[n].inputs))

RECURSIVE Multiply_backward_overwrite_loop(_, _, _, _, _)
Multiply_backward_overwrite_loop(ns, gr, n, ps, k) ==
    IF k = 0 THEN ns
    ELSE LET s0 == Multiply_backward_overwrite_loop(ns, gr, n, ps, k - 1)
         IN  [s0 EXCEPT ![ns[n].inputs[k]] =
                 set_epoch_value(@, "gradient", "grad_epoch", gr.cur_grad_epoch_,
                                 ns[n].gradient * P_wo(ps, k))]

\* a slip the rule could make: each input's gradient written with '=' where the
\* code has '+=', so that the last position of a repeated input wins
Multiply_backward_overwrite(ns, gr, n, junk) ==
    IF ~nary_ok(ns[n]) THEN ns
    ELSE Multiply_backward_overwrite_loop(ns, gr, n,
             build_prefix_suffix(GatherVals(ns, n, junk)), Len(ns[n].inputs))

Multiply_backward(ns, gr, n, junk) ==
    IF ~nary_ok(ns[n]) THEN ns
    ELSE Multiply_backward_loop(ns, gr, n,
             build_prefix_suffix(GatherVals(ns, n, junk)), Len(ns[n].inputs))

RECURSIVE mid_prod(_, _, _, _)
\* for (t = a + 1; t < b; ++t) { mid_prod *= vals[t]; if (mid_prod == 0) break; }
\* entered with t = a + 1 and p = 1; positions counted from 1
mid_prod(vals, t, b, p) ==
    IF t >= b THEN p
    ELSE LET q == p * vals[t]
         IN  IF q = 0 THEN q ELSE mid_prod(vals, t + 1, b, q)

\* the excluded-pair product by division, which the rule avoids
\* (0 / 0 is not a number; NegInf stands for the non-finite result)
pair_prod_by_division(vals, ps, i, k) ==
    IF vals[i] = 0 \/ vals[k] = 0 THEN NegInf
    ELSE Quot(Quot(ps.pre[Len(vals) + 1], vals[i]), vals[k])

pair_prod(vals, ps, i, k) ==
    LET a == IF i < k THEN i ELSE k
        b == IF i < k THEN k ELSE i
    IN  ps.pre[a] * mid_prod(vals, a + 1, b, 1) * ps.suf[b + 1]

RECURSIVE sum_term(_, _, _, _, _)
\* sum over the first k positions other than i of dots[k] * (left * mid * right)
sum_term(vals, dots, ps, i, k) ==
    IF k = 0 THEN 0
    ELSE sum_term(vals, dots, ps, i, k - 1)
         + (IF k = i THEN 0 ELSE dots[k] * pair_prod(vals, ps, i, k))

RECURSIVE Multiply_hvp_loop(_, _, _, _, _, _, _)
Multiply_hvp_loop(ns, gr, n, vals, dots, ps, i) ==
    IF i = 0 THEN ns
    ELSE LET s0 == Multiply_hvp_loop(ns, gr, n, vals, dots, ps, i - 1)
             s1 == AccumInto(s0, ns[n].inputs[i], "gradient", "grad_epoch",
                             gr.cur_grad_epoch_, ns[n].gradient * P_wo(ps, i))
         IN  AccumInto(s1, ns[n].inputs[i], "grad_dot", "gdot_epoch",
                       gr.cur_gdot_epoch_,
                       ns[n].grad_dot * P_wo(ps, i)
                       + ns[n].gradient * sum_term(vals, dots, ps, i, Len(vals)))

\* a slip the m == 2 path could make: b's slots written with '=' where the code
\* has '+='
Multiply_hvp_binary_overwrite(ns, gr, n, junk) ==
    LET a == ns[n].inputs[1]
        b == ns[n].inputs[2]
        aval == ValOf(ns, a, junk)
        bval == ValOf(ns, b, junk)
        adot == DotOf(ns, a, junk)
        bdot == DotOf(ns, b, junk)
        ybar == ns[n].gradient
        ybdot == ns[n].grad_dot
        s1 == AccumInto(ns, a, "gradient", "grad_epoch", gr.cur_grad_epoch_, ybar * bval)
        s3 == AccumInto(s1, a, "grad_dot", "gdot_epoch", gr.cur_gdot_epoch_,
                        ybdot * bval + ybar * bdot)
    IN  [s3 EXCEPT ![b] =
            set_epoch_value(
                set_epoch_value(@, "gradient", "grad_epoch", gr.cur_grad_epoch_,
                                ybar * aval),
                "grad_dot", "gdot_epoch", gr.cur_gdot_epoch_,
                ybdot * aval + ybar * adot)]

\* a slip the m == 2 path could make: the cross term ybar * bdot left out of
\* a's grad_dot
Multiply_hvp_binary_lopsided(ns, gr, n, junk) ==
    LET a == ns[n].inputs[1]
        b == ns[n].inputs[2]
        aval == ValOf(ns, a, junk)
        bval == ValOf(ns, b, junk)
        adot == DotOf(ns, a, junk)
        ybar == ns[n].gradient
        ybdot == ns[n].grad_dot
        s1 == AccumInto(ns, a, "gradient", "grad_epoch", gr.cur_grad_epoch_, ybar * bval)
        s2 == AccumInto(s1, b, "gradient", "grad_epoch", gr.cur_grad_epoch_, ybar * aval)
        s3 == AccumInto(s2, a, "grad_dot", "gdot_epoch", gr.cur_gdot_epoch_,
                        ybdot * bval)
    IN  AccumInto(s3, b, "grad_dot", "gdot_epoch", gr.cur_gdot_epoch_,
                  ybdot * aval + ybar * adot)

\* the m == 2 specialization
Multiply_hvp_binary(ns, gr, n, junk) ==
    LET a == ns[n].inputs[1]
        b == ns[n].inputs[2]
        aval == ValOf(ns, a, junk)
        bval == ValOf(ns, b, junk)
        adot == DotOf(ns, a, junk)
        bdot == DotOf(ns, b, junk)
        ybar == ns[n].gradient
        ybdot == ns[n].grad_dot
        s1 == AccumInto(ns, a, "gradient", "grad_epoch", gr.cur_grad_epoch_, ybar * bval)
        s2 == AccumInto(s1, b, "gradient", "grad_epoch", gr.cur_grad_epoch_, ybar * aval)
        s3 == AccumInto(s2, a, "grad_dot", "gdot_epoch", gr.cur_gdot_epoch_,
                        ybdot * bval + ybar * bdot)
    IN  AccumInto(s3, b, "grad_dot", "gdot_epoch", gr.cur_gdot_epoch_,
                  ybdot * aval + ybar * adot)

Multiply_hvp_backward(ns, gr, n, junk) ==
    IF ~nary_ok(ns[n]) THEN ns
    ELSE IF Len(ns[n].inputs) = 2 THEN Multiply_hvp_binary(ns, gr, n, junk)
    ELSE LET vals == GatherVals(ns, n, junk)
             dots == GatherDots(ns, n, junk)
         IN  Multiply_hvp_loop(ns, gr, n, vals, dots, build_prefix_suffix(vals),
                               Len(vals))

\* ------------------------------------------------------ max (nonsmooth)
Max_forward(ns, gr, n) ==
    IF ~binary_ok(ns[n]) THEN ns
    ELSE LET a == ns[ns[n].inputs[1]].value
             b == ns[ns[n].inputs[2]].value
         IN  [ns EXCEPT ![n] = set_epoch_value(@, "value", "val_epoch",
                                   gr.cur_val_epoch_, IF a >= b THEN a ELSE b)]

Max_forward_dot(ns, gr, n) ==
    IF ~binary_ok(ns[n]) THEN ns
    ELSE LET a == ns[ns[n].inputs[1]]
             b == ns[ns[n].inputs[2]]
         IN  [ns EXCEPT ![n] = touch_epoch(
                 set_epoch_value(@, "dot", "dot_epoch", gr.cur_dot_epoch_,
                                 IF a.value >= b.value THEN a.dot ELSE b.dot),
                 "val_epoch", gr.cur_val_epoch_)]

\* a slip the rule could make: '>' where the code has '>=' (ties go to b)
Max_backward_strict(ns, gr, n) ==
    IF ~binary_ok(ns[n]) THEN ns
    ELSE LET a == ns[n].inputs[1]
             b == ns[n].inputs[2]
         IN  IF ns[a].value > ns[b].value
             THEN AccumInto(ns, a, "gradient", "grad_epoch", gr.cur_grad_epoch_,
                            ns[n].gradient)
             ELSE AccumInto(ns, b, "gradient", "grad_epoch", gr.cur_grad_epoch_,
                            ns[n].gradient)

Max_backward(ns, gr, n) ==
    IF ~binary_ok(ns[n]) THEN ns
    ELSE LET a == ns[n].inputs[1]
             b == ns[n].inputs[2]
         IN  IF ns[a].value >= ns[b].value
             THEN AccumInto(ns, a, "gradient", "grad_epoch", gr.cur_grad_epoch_,
                            ns[n].gradient)
             ELSE AccumInto(ns, b, "gradient", "grad_epoch", gr.cur_grad_epoch_,
                            ns[n].gradient)

Max_hvp_backward(ns, gr, n) ==
    IF ~binary_ok(ns[n]) THEN ns
    ELSE LET a == ns[n].inputs[1]
             b == ns[n].inputs[2]
             win == IF ns[a].value >= ns[b].value THEN a ELSE b
             s1 == AccumInto(ns, win, "gradient", "grad_epoch", gr.cur_grad_epoch_,
                             ns[n].gradient)
         IN  AccumInto(s1, win, "grad_dot", "gdot_epoch", gr.cur_gdot_epoch_,
                       ns[n].grad_dot)

\* ------------------------------------------------------ softmax (component 0)

RECURSIVE SeqMax(_, _)
\* xmax after the scan of x[0..k-1]; the scan starts from -infinity
SeqMax(x, k) ==
    IF k = 0 THEN NegInf
    ELSE LET m == SeqMax(x, k - 1) IN IF x[k] > m THEN x[k] ELSE m

RECURSIVE SeqSum(_, _)
SeqSum(x, k) == IF k = 0 THEN 0 ELSE SeqSum(x, k - 1) + x[k]

Softmax_Z(x) ==
    SeqSum([i \in 1 .. Len(x) |-> Exp(x[i] - SeqMax(x, Len(x)))], Len(x))

\* y[i] = exp(x[i] - xmax) / Z, with Z <= 0 replaced by 1
Softmax_y(x) ==
    LET Z == Softmax_Z(x)
        Zs == IF Z <= 0 THEN 1 ELSE Z
    IN  [i \in 1 .. Len(x) |-> Quot(Exp(x[i] - SeqMax(x, Len(x))), Zs)]

Softmax_sdot(y, xd) == SeqSum([j \in 1 .. Len(y) |-> y[j] * xd[j]], Len(y))

Softmax_dfk(y, k) == y[1] * (IF k = 1 THEN 1 ELSE 0) - y[1] * y[k]

Softmax_Hv(y, xd, k) ==
    LET sdot == Softmax_sdot(y, xd)
    IN  IF k = 1 THEN y[1] * (1 - 2 * y[1]) * (xd[1] - sdot)
        ELSE y[1] * y[k] * (2 * sdot - xd[1] - xd[k])

Softmax_forward(ns, gr, n, junk) ==
    IF ~nary_ok(ns[n]) THEN ns
    ELSE LET x == GatherVals(ns, n, junk)
             Z == Softmax_Z(x)
             yi == Quot(Exp(x[1] - SeqMax(x, Len(x))), IF Z > 0 THEN Z ELSE 1)
         IN  [ns EXCEPT ![n] = set_epoch_value(@, "value", "val_epoch",
                                   gr.cur_val_epoch_, yi)]

Softmax_forward_dot(ns, gr, n, junk) ==
    IF ~nary_ok(ns[n]) THEN ns
    ELSE LET x == GatherVals(ns, n, junk)
             xd == GatherDots(ns, n, junk)
             y == Softmax_y(x)
             dot == y[1] * (xd[1] - Softmax_sdot(y, xd))
         IN  [ns EXCEPT ![n] = touch_epoch(
                 set_epoch_value(@, "dot", "dot_epoch", gr.cur_dot_epoch_, dot),
                 "val_epoch", gr.cur_val_epoch_)]

RECURSIVE Softmax_backward_loop(_, _, _, _, _)
Softmax_backward_loop(ns, gr, n, y, k) ==
    IF k = 0 THEN ns
    ELSE AccumInto(Softmax_backward_loop(ns, gr, n, y, k - 1), ns[n].inputs[k],
                   "gradient", "grad_epoch", gr.cur_grad_epoch_,
                   ns[n].gradient * Softmax_dfk(y, k))

Softmax_backward(ns, gr, n, junk) ==
    IF ~nary_ok(ns[n]) THEN ns
    ELSE Softmax_backward_loop(ns, gr, n, Softmax_y(GatherVals(ns, n, junk)),
                               Len(ns[n].inputs))

RECURSIVE Softmax_hvp_loop(_, _, _, _, _, _)
Softmax_hvp_loop(ns, gr, n, y, xd, k) ==
    IF k = 0 THEN ns
    ELSE LET s0 == Softmax_hvp_loop(ns, gr, n, y, xd, k - 1)
             s1 == AccumInto(s0, ns[n].inputs[k], "gradient", "grad_epoch",
                             gr.cur_grad_epoch_, ns[n].gradient * Softmax_dfk(y, k))
         IN  AccumInto(s1, ns[n].inputs[k], "grad_dot", "gdot_epoch",
                       gr.cur_gdot_epoch_,
                       ns[n].grad_dot * Softmax_dfk(y, k)
                       + ns[n].gradient * Softmax_Hv(y, xd, k))

Softmax_hvp_backward(ns, gr, n, junk) ==
    IF ~nary_ok(ns[n]) THEN ns
    ELSE Softmax_hvp_loop(ns, gr, n, Softmax_y(GatherVals(ns, n, junk)),
                          GatherDots(ns, n, junk), Len(ns[n].inputs))

\* ------------------------------------------------------ thread-local scratch
\* What one invocation leaves in the calling thread's vectors.
Scratch(ts, ns, n, pass, junk) ==
    LET op == ns[n].op
        m == Len(ns[n].inputs)
        vals == GatherVals(ns, n, junk)
        dots == GatherDots(ns, n, junk)
        ps == build_prefix_suffix(vals)
    IN  IF ~nary_ok(ns[n]) THEN ts
        ELSE IF op = "Multiply" /\ pass = "forward_dot"
        THEN [ts EXCEPT !.mul_vals = vals, !.mul_dots = dots,
                        !.mul_pre = ps.pre, !.mul_suf = ps.suf]
        ELSE IF op = "Multiply" /\ pass = "backward"
        THEN [ts EXCEPT !.mul_vals = vals, !.mul_pre = ps.pre, !.mul_suf = ps.suf]
        ELSE IF op = "Multiply" /\ pass = "hvp_backward" /\ m # 2
        THEN [ts EXCEPT !.mul_vals = vals, !.mul_dots = dots,
                        !.mul_pre = ps.pre, !.mul_suf = ps.suf]
        ELSE IF op = "Softmax" /\ pass = "forward"
        THEN [ts EXCEPT !.sm_vals = vals]
        ELSE IF op = "Softmax" /\ pass = "backward"
        THEN [ts EXCEPT !.sm_vals = vals, !.sm_y = Softmax_y(vals)]
        ELSE IF op = "Softmax" /\ pass \in {"forward_dot", "hvp_backward"}
        THEN [ts EXCEPT !.sm_vals = vals, !.sm_dots = dots, !.sm_y = Softmax_y(vals)]
        ELSE ts

\* ------------------------------------------------------ dispatch on n.op
NaryOps == {"Add", "Multiply", "Softmax"}

forward(ns, gr, n, junk) ==
    LET op == ns[n].op
    IN  CASE op \in {"cte", "Var"} -> Nullary_forward(ns, gr, n)
          [] op \in UnaryOps -> UnaryOp_forward(ns, gr, n, op)
          [] op \in BinaryOps -> BinaryOp_forward(ns, gr, n, op)
          [] op = "Add" -> Add_forward(ns, gr, n, junk)
          [] op = "Multiply" -> Multiply_forward(ns, gr, n, junk)
          [] op = "Softmax" -> Softmax_forward(ns, gr, n, junk)
          [] op = "Max" -> Max_forward(ns, gr, n)
          [] OTHER -> ns

forward_dot(ns, gr, n, junk) ==
    LET op == ns[n].op
    IN  CASE op \in {"cte", "Var"} -> Nullary_forward_dot(ns, gr, n)
          [] op \in UnaryOps -> UnaryOp_forward_dot(ns, gr, n, op)
          [] op \in BinaryOps -> BinaryOp_forward_dot(ns, gr, n, op)
          [] op = "Add" -> Add_forward_dot(ns, gr, n, junk)
          [] op = "Multiply" -> Multiply_forward_dot(ns, gr, n, junk)
          [] op = "Softmax" -> Softmax_forward_dot(ns, gr, n, junk)
          [] op = "Max" -> Max_forward_dot(ns, gr, n)
          [] OTHER -> ns

backward(ns, gr, n, junk) ==
    LET op == ns[n].op
    IN  CASE op \in UnaryOps -> UnaryOp_backward(ns, gr, n, op)
          [] op \in BinaryOps -> BinaryOp_backward(ns, gr, n, op)
          [] op = "Add" -> Add_backward(ns, gr, n, junk)
          [] op = "Multiply" -> Multiply_backward(ns, gr, n, junk)
          [] op = "Softmax" -> Softmax_backward(ns, gr, n, junk)
          [] op = "Max" -> Max_backward(ns, gr, n)
          [] OTHER -> ns

hvp_backward(ns, gr, n, junk) ==
    LET op == ns[n].op
    IN  CASE op \in UnaryOps -> UnaryOp_hvp_backward(ns, gr, n, op)
          [] op \in BinaryOps -> BinaryOp_hvp_backward(ns, gr, n, op)
          [] op = "Add" -> Add_hvp_backward(ns, gr, n, junk)
          [] op = "Multiply" -> Multiply_hvp_backward(ns, gr, n, junk)
          [] op = "Softmax" -> Softmax_hvp_backward(ns, gr, n, junk)
          [] op = "Max" -> Max_hvp_backward(ns, gr, n)
          [] OTHER -> ns

Rule(pass, ns, gr, n, junk) ==
    CASE pass = "forward" -> forward(ns, gr, n, junk)
      [] pass = "forward_dot" -> forward_dot(ns, gr, n, junk)
      [] pass = "backward" -> backward(ns, gr, n, junk)
      [] pass = "hvp_backward" -> hvp_backward(ns, gr, n, junk)

\* the invocation dereferences a null entry of n.inputs
DerefsNull(nd) ==
    /\ nd.op \in NaryOps
    /\ nary_ok(nd)
    /\ \E k \in DOMAIN nd.inputs : nd.inputs[k] = NULL

\* ------------------------------------------------------ reference derivatives
\* The mathematical partial derivatives of each operator, written without the
\* rules' loops and tables; the ledger acc is kept with them.
RECURSIVE ProdExcept(_, _, _)
\* product of vals[j] over j in 1..k, j not in skip
ProdExcept(vals, k, skip) ==
    IF k = 0 THEN 1
    ELSE ProdExcept(vals, k - 1, skip) * (IF k \in skip THEN 1 ELSE vals[k])

RECURSIVE CrossSum(_, _, _, _)
\* sum over j in 1..k, j # i, of dots[j] * product of vals[l], l not in {i, j}
CrossSum(vals, dots, i, k) ==
    IF k = 0 THEN 0
    ELSE CrossSum(vals, dots, i, k - 1)
         + (IF k = i THEN 0 ELSE dots[k] * ProdExcept(vals, Len(vals), {i, k}))

\* the rule of nd passes its arity and null checks
Acts(nd) ==
    CASE nd.op \in UnaryOps -> unary_ok(nd)
      [] nd.op \in BinaryOps \cup {"Max"} -> binary_ok(nd)
      [] nd.op \in NaryOps -> nary_ok(nd)
      [] OTHER -> FALSE

\* the unit the derivatives of nd's operator are counted in
RefDen(nd) == IF nd.op \in UnaryOps THEN Rule_den(nd.op) ELSE 1

\* d f / d input_k
RefPartial(ns, n, k, junk) ==
    LET op == ns[n].op
        v == GatherVals(ns, n, junk)
    IN  CASE op \in UnaryOps -> Rule_df(op, v[1])       \* in units of 1 / RefDen
          [] op = "Subtract" -> IF k = 1 THEN 1 ELSE -1
          [] op = "Divide" -> IF k = 1 THEN DivRule_dfa(v[1], v[2])
                              ELSE DivRule_dfb(v[1], v[2])
          [] op = "Add" -> 1
          [] op = "Multiply" -> ProdExcept(v, Len(v), {k})
          [] op = "Max" -> IF (k = 1) = (v[1] >= v[2]) THEN 1 ELSE 0
          [] op = "Softmax" -> Softmax_dfk(Softmax_y(v), k)

\* sum over j of d2 f / (d input_k d input_j) * dot_j
RefSecond(ns, n, k, junk) ==
    LET op == ns[n].op
        v == GatherVals(ns, n, junk)
        d == GatherDots(ns, n, junk)
    IN  CASE op \in UnaryOps -> Rule_d2(op, v[1]) * d[1]
          [] op = "Divide" ->
                IF k = 1 THEN DivRule_d2ab(v[1], v[2]) * d[2]
                ELSE DivRule_d2ab(v[1], v[2]) * d[1] + DivRule_d2bb(v[1], v[2]) * d[2]
          [] op = "Multiply" -> CrossSum(v, d, k, Len(v))
          [] op = "Softmax" -> Softmax_Hv(Softmax_y(v), d, k)
          [] OTHER -> 0

RECURSIVE ContribG(_, _, _, _, _)
\* what node n adds to the gradient of node i through its first k inputs
ContribG(ns, n, i, k, junk) ==
    IF k = 0 THEN 0
    ELSE ContribG(ns, n, i, k - 1, junk)
         + (IF ns[n].inputs[k] = i
            THEN Quot(ns[n].gradient * RefPartial(ns, n, k, junk), RefDen(ns[n]))
            ELSE 0)

RECURSIVE ContribGd(_, _, _, _, _)
\* what node n adds to the grad_dot of node i through its first k inputs
ContribGd(ns, n, i, k, junk) ==
    IF k = 0 THEN 0
    ELSE ContribGd(ns, n, i, k - 1, junk)
         + (IF ns[n].inputs[k] = i
            THEN Quot(ns[n].grad_dot * RefPartial(ns, n, k, junk)
                      + ns[n].gradient * RefSecond(ns, n, k, junk),
                      RefDen(ns[n]))
            ELSE 0)

\* the ledger after node n has propagated in a reverse pass
Ledger(ac, ns, n, pass, junk) ==
    IF ~Acts(ns[n]) THEN ac
    ELSE [i \in DOMAIN ac |->
            [g  |-> ac[i].g + ContribG(ns, n, i, Len(ns[n].inputs), junk),
             gd |-> IF pass = "hvp_backward"
                    THEN ac[i].gd + ContribGd(ns, n, i, Len(ns[n].inputs), junk)
                    ELSE ac[i].gd]]

\* ------------------------------------------------------ graphs under test
UnitVals == {-1, 0, 1}   \* divisors
LogVals == {0, 1}        \* arguments of Log
TrigVals == {0}          \* arguments of Sin, Cos, Exp, Tan, Tanh, Silu, Gelu

\* a shape is the graph the builder made: per node its op and inputs, and for a
\* leaf the values the caller may feed it
V(dom) == [op |-> "Var", inputs |-> <<>>, dom |-> dom]
K(dom) == [op |-> "cte", inputs |-> <<>>, dom |-> dom]
O(op, ins) == [op |-> op, inputs |-> ins, dom |-> {0}]

RuleShapes ==
    { <<V(Vals), O("Relu", <<1>>)>>,
      <<V(LogVals), O("Log", <<1>>)>>,
      <<V(TrigVals), O("Sin", <<1>>)>>,
      <<V(TrigVals), O("Cos", <<1>>)>>,
      <<V(TrigVals), O("Exp", <<1>>)>>,
      <<V(TrigVals), O("Tan", <<1>>)>>,
      <<V(TrigVals), O("Tanh", <<1>>)>>,
      <<V(Vals), O("Softmax", <<1>>)>>,
      <<V(Vals), O("Add", <<1>>)>>,
      <<V(Vals), O("Add", <<1, 1>>)>>,
      <<V(Vals), O("Multiply", <<1>>)>>,
      <<V(Vals), O("Multiply", <<1, 1>>)>>,
      <<V(Vals), O("Subtract", <<1, 1>>)>>,
      <<V(Vals), K(Vals), O("Subtract", <<1, 2>>)>>,
      <<V(Vals), V(UnitVals), O("Divide", <<1, 2>>)>>,
      <<V(Vals), V(Vals), O("Max", <<1, 2>>)>>,
      <<V(Vals), V(Vals), O("Add", <<1, 2>>)>>,
      <<V(Vals), V(Vals), O("Multiply", <<1, 2>>)>>,
      <<V(Vals), V(Vals), O("Relu", <<1>>), O("Add", <<3, 2, 1>>)>>,
      <<V(Vals), V(Vals), O("Multiply", <<1, 2>>), O("Max", <<3, 2>>)>> }

\* builder bugs: wrong arity, null inputs, an operator without rules
BadShapes ==
    { <<V(Vals), O("Relu", <<>>)>>,
      <<V(Vals), O("Silu", <<>>)>>,
      <<V(Vals), O("Gelu", <<1, 1>>)>>,
      <<V(Vals), O("Exp", <<NULL>>)>>,
      <<V(Vals), O("Log", <<1, 1>>)>>,
      <<V(Vals), O("Subtract", <<1>>)>>,
      <<V(Vals), O("Divide", <<1, 1, 1>>)>>,
      <<V(Vals), O("Max", <<1>>)>>,
      <<V(Vals), O("Max", <<>>)>>,
      <<V(Vals), O("Add", <<>>)>>,
      <<V(Vals), O("Multiply", <<>>)>>,
      <<V(Vals), O("Softmax", <<>>)>>,
      <<V(Vals), O("Unknown", <<1>>)>>,
      <<V(Vals), O("Relu", <<NULL>>)>>,
      <<V(Vals), O("Subtract", <<1, NULL>>)>>,
      <<V(Vals), O("Divide", <<NULL, 1>>)>>,
      <<V(Vals), O("Max", <<NULL, 1>>)>>,
      <<V(Vals), O("Add", <<1, NULL>>)>>,
      <<V(Vals), O("Multiply", <<NULL, 1>>)>>,
      <<V(Vals), O("Multiply", <<1, NULL, 1>>)>>,
      <<V(Vals), O("Softmax", <<NULL>>)>> }

IsLeaf(nd) == nd.op \in {"Var", "cte"}

NewNode(op, ins, value, dot) ==
    [op |-> op, inputs |-> ins, value |-> value, dot |-> dot,
     gradient |-> 0, grad_dot |-> 0,
     val_epoch |-> 0, dot_epoch |-> 0, grad_epoch |-> 0, gdot_epoch |-> 0]

RECURSIVE FeedsUpTo(_, _)
\* the values and tangents a caller may feed the first k nodes of shape sh: a
\* leaf takes a value of its domain, and a Var a tangent too
FeedsUpTo(sh, k) ==
    IF k = 0 THEN {<<>>}
    ELSE {Append(f, <<v, d>>) :
             f \in FeedsUpTo(sh, k - 1),
             v \in sh[k].dom,
             d \in IF sh[k].op = "Var" THEN Dots ELSE {0}}

Feeds(sh) == FeedsUpTo(sh, Len(sh))

NoScratch ==
    [mul_vals |-> <<>>, mul_dots |-> <<>>, mul_pre |-> <<>>, mul_suf |-> <<>>,
     sm_vals |-> <<>>, sm_dots |-> <<>>, sm_y |-> <<>>]

\* no worker threads: the scheduler runs the rules on its own thread
NoThreads == [sc |-> <<>>, pc |-> <<>>, k |-> <<>>, work |-> <<>>, init |-> <<>>]

NoCall == [pass |-> "none", node |-> 0, ub |-> FALSE, pre |-> <<>>]

InitOn(shapes) ==
    /\ \E sh \in shapes : \E f \in Feeds(sh) :
          nodes = [i \in 1 .. Len(sh) |->
                      NewNode(sh[i].op, sh[i].inputs, f[i][1], f[i][2])]
    /\ g = [cur_val_epoch_ |-> 0, cur_dot_epoch_ |-> 0,
            cur_grad_epoch_ |-> 0, cur_gdot_epoch_ |-> 0]
    /\ tls = NoScratch
    /\ phase = "idle"
    /\ pos = 0
    /\ crashed = FALSE
    /\ last = NoCall
    /\ acc = [i \in 1 .. Len(nodes) |-> [g |-> 0, gd |-> 0]]
    /\ prev = <<>>
    /\ thr = NoThreads

Init == InitOn(RuleShapes \cup BadShapes)

\* a Multiply node over m distinct Var leaves, m = 1 .. MaxArity
MulShapes ==
    { [i \in 1 .. m + 1 |-> IF i <= m THEN V(Vals)
                            ELSE O("Multiply", [j \in 1 .. m |-> j])] :
      m \in 1 .. MaxArity }

\* the worked example of the Multiply rule: a * b * c at (2, 3, 5)
ExampleShape == <<V({2}), V({3}), V({5}), O("Multiply", <<1, 2, 3>>)>>

\* the scenario with a zero factor: a * b * c at (2, 0, 5)
ZeroShape == <<V({2}), V({0}), V({5}), O("Multiply", <<1, 2, 3>>)>>

InitMul == InitOn(MulShapes \cup {ExampleShape, ZeroShape})

\* single-output graphs over Var, cte, Add, Subtract, Multiply and Max
VjpShapes ==
    { <<V(Vals), V(Vals), O("Multiply", <<1, 2>>), O("Max", <<3, 2>>)>>,
      <<V(Vals), K(Vals), O("Subtract", <<1, 2>>), O("Max", <<1, 3>>)>>,
      <<V(Vals), V(Vals), O("Max", <<1, 2>>), O("Add", <<3, 1>>)>>,
      <<V(Vals), V(Vals), O("Add", <<1, 2, 1>>), O("Multiply", <<3, 2>>)>>,
      <<K(TrigVals), V(Vals), O("Silu", <<1>>), O("Add", <<3, 3, 2>>)>>,
      <<K(TrigVals), V(Vals), O("Gelu", <<1>>), O("Add", <<3, 3, 2>>)>> }

InitVjp == InitOn(VjpShapes)

\* single-output graphs over Var, cte, Add, Subtract and Multiply, and Silu and
\* Gelu of a constant and of x + x
HvpShapes ==
    { <<K(TrigVals), V(Vals), O("Silu", <<1>>), O("Add", <<3, 3, 2>>)>>,
      <<K(TrigVals), V(Vals), O("Gelu", <<1>>), O("Add", <<3, 3, 2>>)>>,
      <<V(TrigVals), O("Add", <<1, 1>>), O("Gelu", <<2>>), O("Add", <<3, 3>>)>>,
      <<V(TrigVals), O("Add", <<1, 1>>), O("Silu", <<2>>), O("Add", <<3, 3>>)>>,
      <<V(Vals), V(Vals), V(Vals), O("Multiply", <<1, 2, 3>>)>>,
      <<V(Vals), O("Multiply", <<1, 1, 1>>)>>,
      <<V({0, 2}), V(Vals), V({1}), V({0, 1}), O("Multiply", <<1, 2, 3, 4>>)>>,
      <<V(Vals), V(Vals), O("Add", <<1, 2>>), O("Multiply", <<3, 1, 2>>)>>,
      <<V(Vals), K(Vals), O("Subtract", <<1, 2>>), O("Multiply", <<3, 3>>)>>,
      <<V(Vals), V(Vals), O("Multiply", <<1, 2>>), O("Subtract", <<3, 1>>),
        O("Multiply", <<4, 3, 1>>)>> }

InitHvp == InitOn(HvpShapes)

\* ------------------------------------------------------ the scheduler
\* nodes are numbered in topological order: forward passes visit 1..N, reverse
\* passes N..1
ForwardPasses == {"forward", "forward_dot"}
ReversePasses == {"backward", "hvp_backward"}

\* nodes a caller asks the derivatives of: any operator node
SeedNodes == {i \in Ids : ~IsLeaf(nodes[i])}

\* the value pass runs once the leaves are fed
BeginForward ==
    /\ ~crashed
    /\ \/ phase = "idle" /\ g.cur_val_epoch_ = 0
       \/ phase = "refed"
    /\ g' = [g EXCEPT !.cur_val_epoch_ = @ + 1]
    /\ phase' = "forward"
    /\ pos' = 1
    /\ last' = NoCall
    /\ UNCHANGED <<nodes, tls, crashed, acc, prev, thr>>

\* the tangent pass runs once the values are there, and again after the caller
\* changed the tangent
BeginForwardDot ==
    /\ ~crashed
    /\ phase = "fed"
    /\ g' = [g EXCEPT !.cur_dot_epoch_ = @ + 1]
    /\ phase' = "forward_dot"
    /\ pos' = 1
    /\ last' = NoCall
    /\ UNCHANGED <<nodes, tls, crashed, acc, prev, thr>>

\* the start of a backward pass seeded at node s with gradient w
StartBackward(s, w) ==
    /\ phase = "idle" /\ ~crashed
    /\ g.cur_dot_epoch_ > 0 /\ g.cur_grad_epoch_ < MaxPasses
    /\ g' = [g EXCEPT !.cur_grad_epoch_ = @ + 1]
    /\ nodes' = [nodes EXCEPT ![s] =
          set_epoch_value(@, "gradient", "grad_epoch", g'.cur_grad_epoch_, w)]
    /\ acc' = [i \in Ids |-> [g |-> IF i = s THEN w ELSE 0, gd |-> acc[i].gd]]
    /\ phase' = "backward"
    /\ pos' = N
    /\ last' = NoCall
    /\ UNCHANGED <<tls, crashed, prev, thr>>

BeginBackward == \E s \in SeedNodes : \E sd \in BackwardSeeds : StartBackward(s, sd[1])

\* the seed of the gradient of the output: gradient 1
BeginBackwardOutput == StartBackward(N, 1)

\* the start of an hvp pass seeded at node s with <<gradient, grad_dot>> = sd
StartHvp(s, sd) ==
    /\ phase = "idle" /\ ~crashed
    /\ g.cur_dot_epoch_ > 0 /\ g.cur_grad_epoch_ < MaxPasses
    /\ g' = [g EXCEPT !.cur_grad_epoch_ = @ + 1, !.cur_gdot_epoch_ = @ + 1]
    /\ nodes' = [nodes EXCEPT ![s] =
          set_epoch_value(
              set_epoch_value(@, "gradient", "grad_epoch", g'.cur_grad_epoch_, sd[1]),
              "grad_dot", "gdot_epoch", g'.cur_gdot_epoch_, sd[2])]
    /\ acc' = [i \in Ids |-> IF i = s THEN [g |-> sd[1], gd |-> sd[2]]
                             ELSE [g |-> 0, gd |-> 0]]
    /\ phase' = "hvp_backward"
    /\ pos' = N
    /\ last' = NoCall
    /\ UNCHANGED <<tls, crashed, prev, thr>>

BeginHvp == \E s \in SeedNodes : \E sd \in HvpSeeds : StartHvp(s, sd)

\* the seed of the Hessian-vector product of the output: gradient 1, grad_dot 0
BeginHvpOutput == StartHvp(N, <<1, 0>>)

\* after an hvp pass the caller keeps the leaves' tangent and grad_dot and feeds
\* another tangent
Retangent ==
    /\ phase = "idle" /\ ~crashed
    /\ g.cur_gdot_epoch_ > 0 /\ g.cur_grad_epoch_ < MaxPasses /\ prev = <<>>
    /\ prev' = [i \in Ids |-> [dot |-> nodes[i].dot,
                               grad_dot |-> IF nodes[i].gdot_epoch = g.cur_gdot_epoch_
                                            THEN nodes[i].grad_dot ELSE 0]]
    /\ \E u \in [Ids -> Dots] :
          /\ \A i \in Ids : nodes[i].op # "Var" => u[i] = 0
          /\ nodes' = [i \in Ids |-> IF nodes[i].op = "Var"
                                     THEN [nodes[i] EXCEPT !.dot = u[i]]
                                     ELSE nodes[i]]
    /\ phase' = "fed"
    /\ last' = NoCall
    /\ UNCHANGED <<g, tls, pos, crashed, acc, thr>>

\* after a reverse pass the caller feeds the Var leaves other values
Refeed ==
    /\ phase = "idle" /\ ~crashed
    /\ g.cur_grad_epoch_ > 0 /\ g.cur_grad_epoch_ < MaxPasses
    /\ g.cur_val_epoch_ < MaxPasses
    /\ \E v \in [Ids -> Vals] :
          /\ \A i \in Ids : nodes[i].op # "Var" => v[i] = nodes[i].value
          /\ nodes' = [i \in Ids |-> IF nodes[i].op = "Var"
                                     THEN [nodes[i] EXCEPT !.value = v[i]]
                                     ELSE nodes[i]]
    /\ phase' = "refed"
    /\ last' = NoCall
    /\ UNCHANGED <<g, tls, pos, crashed, acc, prev, thr>>

\* the scheduler moves on after visiting pos
Advance ==
    IF phase \in ForwardPasses
    THEN /\ pos' = IF pos = N THEN 0 ELSE pos + 1
         /\ phase' = IF pos < N THEN phase
                     ELSE IF phase = "forward" THEN "fed" ELSE "idle"
    ELSE /\ pos' = pos - 1
         /\ phase' = IF pos = 1 THEN "idle" ELSE phase

\* one rule invocation that returns
Visit(pass) ==
    /\ phase = pass /\ ~crashed
    /\ \E junk \in (IF DerefsNull(nodes[pos]) THEN Junk ELSE {0}) :
          /\ nodes' = Rule(pass, nodes, g, pos, junk)
          /\ tls' = Scratch(tls, nodes, pos, pass, junk)
          /\ acc' = IF pass \in ReversePasses
                    THEN Ledger(acc, nodes, pos, pass, junk) ELSE acc
    /\ last' = [pass |-> pass, node |-> pos, ub |-> DerefsNull(nodes[pos]),
                pre |-> nodes]
    /\ Advance
    /\ UNCHANGED <<g, crashed, prev, thr>>

VisitForward == Visit("forward")
VisitForwardDot == Visit("forward_dot")
VisitBackward == Visit("backward")
VisitHvpBackward == Visit("hvp_backward")

\* one rule invocation that dereferences a null input and kills the process
NullDeref ==
    /\ phase \in ForwardPasses \cup ReversePasses /\ ~crashed
    /\ DerefsNull(nodes[pos])
    /\ crashed' = TRUE
    /\ last' = [pass |-> phase, node |-> pos, ub |-> TRUE, pre |-> nodes]
    /\ UNCHANGED <<nodes, g, tls, phase, pos, acc, prev, thr>>

Next ==
    \/ BeginForward
    \/ BeginForwardDot
    \/ BeginBackward
    \/ BeginHvp
    \/ VisitForward
    \/ VisitForwardDot
    \/ VisitBackward
    \/ VisitHvpBackward
    \/ NullDeref

Spec == Init /\ [][Next]_vars

NextRules ==
    \/ BeginForward
    \/ BeginForwardDot
    \/ BeginBackward
    \/ BeginHvp
    \/ VisitForward
    \/ VisitForwardDot
    \/ VisitBackward
    \/ VisitHvpBackward

SpecMul == InitMul /\ [][NextRules]_vars

\* gradient of the output, again after the caller fed other values
NextVjp ==
    \/ BeginForward
    \/ BeginForwardDot
    \/ BeginBackwardOutput
    \/ Refeed
    \/ VisitForward
    \/ VisitForwardDot
    \/ VisitBackward

SpecVjp == InitVjp /\ [][NextVjp]_vars

\* Hessian-vector product of the output, again after the caller fed another
\* tangent
NextHvp ==
    \/ BeginForward
    \/ BeginForwardDot
    \/ BeginHvpOutput
    \/ Retangent
    \/ VisitForward
    \/ VisitForwardDot
    \/ VisitHvpBackward

SpecHvp == InitHvp /\ [][NextHvp]_vars

\* a value pass that evaluates only what the caller asked for: an operator node
\* that no later node reads may be left out of the pass
Unread(i) == \A j \in Ids : \A k \in 1 .. Len(nodes[j].inputs) : nodes[j].inputs[k] # i

SkipForward ==
    /\ phase = "forward" /\ ~crashed
    /\ ~IsLeaf(nodes[pos]) /\ Unread(pos)
    /\ last' = NoCall
    /\ Advance
    /\ UNCHANGED <<nodes, g, tls, crashed, acc, prev, thr>>

\* one or two outputs over Var leaves, through the unary template, the binary
\* template and Multiply
FreshShapes ==
    { <<V(Vals), O("Relu", <<1>>)>>,
      <<V(Vals), V(Vals), O("Subtract", <<1, 2>>), O("Multiply", <<1, 2>>)>>,
      <<V(Vals), V({1, 2}), O("Multiply", <<1, 2, 2>>), O("Relu", <<1>>)>> }

InitFresh == InitOn(FreshShapes)

NextFresh ==
    \/ BeginForward
    \/ BeginForwardDot
    \/ BeginBackwardOutput
    \/ Refeed
    \/ VisitForward
    \/ SkipForward
    \/ VisitForwardDot
    \/ VisitBackward

SpecFresh == InitFresh /\ [][NextFresh]_vars

\* ------------------------------------------------------ worker threads
\* An external scheduler may run rules on disjoint parts of a graph on several
\* threads. A rule that uses the scratch vectors first fills them from the
\* node's inputs and then computes what it writes from their contents; another
\* thread may run between the two.
Threads == {1, 2}

\* what a static vector instead of a thread_local one would give: one set of
\* vectors for all threads
tls_static(t) == 1

\* the vectors thread t gets from tls_vals(), tls_dots(), ...: its own
tls_of(t) == t

\* a resize that never shrinks the vector
resize_grow_only(v, m) ==
    IF m <= Len(v) THEN v ELSE v \o [i \in 1 .. (m - Len(v)) |-> 0]

\* std::vector<double>::resize(m): cut to m elements, or padded with 0.0
resize(v, m) ==
    IF m <= Len(v) THEN SubSeq(v, 1, m) ELSE v \o [i \in 1 .. (m - Len(v)) |-> 0]

\* v.resize(m); for (i = 0; i < m; ++i) v[i] = w[i];
Refill(v, m, w) ==
    LET r == resize(v, m)
    IN  [i \in 1 .. Len(r) |-> IF i <= m THEN w[i] ELSE r[i]]

\* the passes that go through the scratch vectors
UsesScratch(nd, pass) ==
    /\ nary_ok(nd)
    /\ \/ nd.op = "Softmax"
       \/ /\ nd.op = "Multiply"
          /\ \/ pass \in {"forward_dot", "backward"}
             \/ pass = "hvp_backward" /\ Len(nd.inputs) # 2

\* the first half of a rule: gather the inputs into the vectors sc, build the
\* tables
FillScratch(sc, ns, n, pass) ==
    LET m == Len(ns[n].inputs)
        mv == Refill(sc.mul_vals, m, GatherVals(ns, n, 0))
        md == Refill(sc.mul_dots, m, GatherDots(ns, n, 0))
        ps == build_prefix_suffix(mv)
        sv == Refill(sc.sm_vals, m, GatherVals(ns, n, 0))
        sd == Refill(sc.sm_dots, m, GatherDots(ns, n, 0))
        sy == Refill(sc.sm_y, m, Softmax_y(SubSeq(sv, 1, m)))
    IN  IF ns[n].op = "Multiply"
        THEN IF pass = "backward"
             THEN [sc EXCEPT !.mul_vals = mv, !.mul_pre = ps.pre, !.mul_suf = ps.suf]
             ELSE [sc EXCEPT !.mul_vals = mv, !.mul_dots = md,
                             !.mul_pre = ps.pre, !.mul_suf = ps.suf]
        ELSE IF pass = "forward" THEN [sc EXCEPT !.sm_vals = sv]
        ELSE IF pass = "backward" THEN [sc EXCEPT !.sm_vals = sv, !.sm_y = sy]
        ELSE [sc EXCEPT !.sm_vals = sv, !.sm_dots = sd, !.sm_y = sy]

\* the second half of a rule: what it writes, computed from the vectors sc
CommitFrom(sc, ns, gr, n, pass) ==
    LET m == Len(ns[n].inputs)
        ps == [pre |-> sc.mul_pre, suf |-> sc.mul_suf]
        x == sc.sm_vals
        Z == SeqSum([i \in 1 .. m |-> Exp(x[i] - SeqMax(x, m))], m)
    IN  IF ns[n].op = "Multiply"
        THEN CASE pass = "forward_dot" ->
                    [ns EXCEPT ![n] = touch_epoch(
                        set_epoch_value(@, "dot", "dot_epoch", gr.cur_dot_epoch_,
                                        Multiply_ds(sc.mul_dots, ps, m)),
                        "val_epoch", gr.cur_val_epoch_)]
               [] pass = "backward" -> Multiply_backward_loop(ns, gr, n, ps, m)
               [] pass = "hvp_backward" ->
                    Multiply_hvp_loop(ns, gr, n, sc.mul_vals, sc.mul_dots, ps, m)
        ELSE CASE pass = "forward" ->
                    [ns EXCEPT ![n] = set_epoch_value(@, "value", "val_epoch",
                        gr.cur_val_epoch_,
                        Quot(Exp(x[1] - SeqMax(x, m)), IF Z > 0 THEN Z ELSE 1))]
               [] pass = "forward_dot" ->
                    [ns EXCEPT ![n] = touch_epoch(
                        set_epoch_value(@, "dot", "dot_epoch", gr.cur_dot_epoch_,
                            sc.sm_y[1] * (sc.sm_dots[1]
                                          - Softmax_sdot(sc.sm_y, sc.sm_dots))),
                        "val_epoch", gr.cur_val_epoch_)]
               [] pass = "backward" -> Softmax_backward_loop(ns, gr, n, sc.sm_y, m)
               [] pass = "hvp_backward" ->
                    Softmax_hvp_loop(ns, gr, n, sc.sm_y, sc.sm_dots, m)

\* two parts of one graph that share no node: nodes 1..5 and nodes 6..9
ParShape ==
    <<V({0, 2}), K({1, 2}), K({2}),
      O("Multiply", <<1, 2, 3>>), O("Multiply", <<4, 1>>),
      V({1, 2}), K({2}),
      O("Softmax", <<6>>), O("Multiply", <<6, 7, 8>>)>>

\* thread 1 evaluates the first part and its Hessian-vector product, thread 2
\* the second part and its gradient
Work1 ==
    [i \in 1 .. 5 |-> <<"forward", i>>] \o [i \in 1 .. 5 |-> <<"forward_dot", i>>]
    \o << <<"hvp_backward", 5>>, <<"hvp_backward", 4>> >>
Work2 ==
    [i \in 1 .. 4 |-> <<"forward", 5 + i>>]
    \o [i \in 1 .. 4 |-> <<"forward_dot", 5 + i>>]
    \o << <<"backward", 9>>, <<"backward", 8>> >>

\* vectors as an earlier use at a larger arity may have left them
DirtyScratch ==
    [mul_vals |-> <<7, 7, 7, 7>>, mul_dots |-> <<7, 7, 7, 7>>,
     mul_pre |-> <<7, 7, 7, 7, 7>>, mul_suf |-> <<7, 7, 7, 7, 7>>,
     sm_vals |-> <<7, 7, 7, 7>>, sm_dots |-> <<7, 7, 7, 7>>,
     sm_y |-> <<7, 7, 7, 7>>]

\* the four passes have been started (every counter is 1) and the two outputs
\* seeded
InitPar ==
    /\ \E f \in Feeds(ParShape) :
          nodes = [i \in 1 .. Len(ParShape) |->
                     LET nd == NewNode(ParShape[i].op, ParShape[i].inputs,
                                       f[i][1], f[i][2])
                     IN  IF i = 5
                         THEN [nd EXCEPT !.gradient = 1, !.grad_epoch = 1,
                                         !.grad_dot = 1, !.gdot_epoch = 1]
                         ELSE IF i = 9
                         THEN [nd EXCEPT !.gradient = 1, !.grad_epoch = 1]
                         ELSE nd]
    /\ g = [cur_val_epoch_ |-> 1, cur_dot_epoch_ |-> 1,
            cur_grad_epoch_ |-> 1, cur_gdot_epoch_ |-> 1]
    /\ \E d \in {NoScratch, DirtyScratch} :
          thr = [sc |-> [t \in Threads |-> d],
                 pc |-> [t \in Threads |-> "call"],
                 k |-> [t \in Threads |-> 1],
                 work |-> <<Work1, Work2>>,
                 init |-> nodes]
    /\ tls = NoScratch
    /\ phase = "parallel"
    /\ pos = 0
    /\ crashed = FALSE
    /\ last = NoCall
    /\ acc = [i \in 1 .. Len(nodes) |-> [g |-> 0, gd |-> 0]]
    /\ prev = <<>>

\* the invocation thread t is at: <<pass, node>>
Cur(t) == thr.work[t][thr.k[t]]
Busy(t) == thr.k[t] <= Len(thr.work[t])

\* thread t enters a rule that uses the scratch vectors and fills them
ThreadFill(t) ==
    /\ Busy(t) /\ thr.pc[t] = "call"
    /\ UsesScratch(nodes[Cur(t)[2]], Cur(t)[1])
    /\ thr' = [thr EXCEPT
                  !.sc[tls_of(t)] = FillScratch(@, nodes, Cur(t)[2], Cur(t)[1]),
                  !.pc[t] = "filled"]
    /\ UNCHANGED <<nodes, g, tls, phase, pos, crashed, last, acc, prev>>

\* thread t finishes the rule from what the vectors hold
ThreadCommit(t) ==
    /\ Busy(t) /\ thr.pc[t] = "filled"
    /\ nodes' = CommitFrom(thr.sc[tls_of(t)], nodes, g, Cur(t)[2], Cur(t)[1])
    /\ last' = [pass |-> Cur(t)[1], node |-> Cur(t)[2], ub |-> FALSE, pre |-> nodes]
    /\ thr' = [thr EXCEPT !.pc[t] = "call", !.k[t] = @ + 1]
    /\ UNCHANGED <<g, tls, phase, pos, crashed, acc, prev>>

\* thread t runs a rule that uses no scratch vector
ThreadCall(t) ==
    /\ Busy(t) /\ thr.pc[t] = "call"
    /\ ~UsesScratch(nodes[Cur(t)[2]], Cur(t)[1])
    /\ nodes' = Rule(Cur(t)[1], nodes, g, Cur(t)[2], 0)
    /\ last' = [pass |-> Cur(t)[1], node |-> Cur(t)[2], ub |-> FALSE, pre |-> nodes]
    /\ thr' = [thr EXCEPT !.k[t] = @ + 1]
    /\ UNCHANGED <<g, tls, phase, pos, crashed, acc, prev>>

Fill == \E t \in Threads : ThreadFill(t)
Commit == \E t \in Threads : ThreadCommit(t)
Call == \E t \in Threads : ThreadCall(t)

NextPar ==
    \/ Fill
    \/ Commit
    \/ Call

SpecPar == InitPar /\ [][NextPar]_vars

\* ====================================================== properties
\* what an accumulator holds, a slot that is not live reading as zero
LiveG(nd) == IF nd.grad_epoch = g.cur_grad_epoch_ THEN nd.gradient ELSE 0
LiveGd(nd) == IF nd.gdot_epoch = g.cur_gdot_epoch_ THEN nd.grad_dot ELSE 0

\* a rule invocation has just returned: nodes is what it made of last.pre
Returned == last.pass # "none" /\ ~crashed
Callee == last.pre[last.node]

\* the inputs the rule of node nd accumulates into, in state ns
Targets(ns, nd) ==
    IF nd.op = "Max"
    THEN {IF ns[nd.inputs[1]].value >= ns[nd.inputs[2]].value
          THEN nd.inputs[1] ELSE nd.inputs[2]}
    ELSE {nd.inputs[k] : k \in DOMAIN nd.inputs} \ {NULL}

\* C1: in every state, an accumulator that is live in the current reverse pass
\* holds exactly the seed and the contributions made to it in this pass, whatever
\* earlier passes left in the slot.
Inv_C1 ==
    \A i \in Ids :
        /\ nodes[i].grad_epoch = g.cur_grad_epoch_ => nodes[i].gradient = acc[i].g
        /\ nodes[i].gdot_epoch = g.cur_gdot_epoch_ => nodes[i].grad_dot = acc[i].gd

\* a second-pass accumulation into a slot that held a non-zero value of the pass
\* before, by a node whose other consumers add to the same slot
Wit_C1 ==
    /\ Returned /\ last.pass \in ReversePasses
    /\ g.cur_grad_epoch_ = 2
    /\ \E i \in Targets(last.pre, Callee) :
          /\ last.pre[i].grad_epoch = 1 /\ last.pre[i].gradient # 0
          /\ nodes[i].grad_epoch = 2
          /\ nodes[i].gradient # last.pre[i].gradient

\* C2: after a pass ran on a node with valid arity, the tag of every slot the
\* pass writes equals the graph's counter for that pass.
Inv_C2 ==
    (Returned /\ (IsLeaf(Callee) \/ Acts(Callee))) =>
        CASE last.pass = "forward" ->
                nodes[last.node].val_epoch = g.cur_val_epoch_
          [] last.pass = "forward_dot" ->
                nodes[last.node].dot_epoch = g.cur_dot_epoch_
          [] last.pass = "backward" ->
                IsLeaf(Callee) \/
                \A i \in Targets(last.pre, Callee) :
                    nodes[i].grad_epoch = g.cur_grad_epoch_
          [] last.pass = "hvp_backward" ->
                IsLeaf(Callee) \/
                \A i \in Targets(last.pre, Callee) :
                    /\ nodes[i].grad_epoch = g.cur_grad_epoch_
                    /\ nodes[i].gdot_epoch = g.cur_gdot_epoch_

\* hvp_backward has brought both tags of an input up to date
Wit_C2 ==
    /\ Returned /\ last.pass = "hvp_backward" /\ Acts(Callee)
    /\ \E i \in Targets(last.pre, Callee) :
          /\ last.pre[i].grad_epoch # g.cur_grad_epoch_
          /\ last.pre[i].gdot_epoch # g.cur_gdot_epoch_
          /\ nodes[i].grad_epoch = g.cur_grad_epoch_
          /\ nodes[i].gdot_epoch = g.cur_gdot_epoch_

\* C3: a node whose gradient (and grad_dot) is not live contributes nothing to
\* its inputs when backward or hvp_backward runs on it.
Inv_C3 ==
    (/\ Returned /\ last.pass \in ReversePasses /\ Acts(Callee)
     /\ Callee.grad_epoch # g.cur_grad_epoch_
     /\ last.pass = "hvp_backward" => Callee.gdot_epoch # g.cur_gdot_epoch_) =>
        \A i \in Ids :
            /\ LiveG(nodes[i]) = LiveG(last.pre[i])
            /\ LiveGd(nodes[i]) = LiveGd(last.pre[i])

\* the arity the rule of nd wants is not the arity nd has
ArityMismatch(nd) ==
    \/ nd.op \in UnaryOps /\ Len(nd.inputs) # 1
    \/ nd.op \in BinaryOps \cup {"Max"} /\ Len(nd.inputs) # 2
    \/ nd.op \in NaryOps /\ Len(nd.inputs) = 0

\* C4: a rule invoked on a node of the wrong arity returns with every slot and
\* every tag of every node as it was.
Inv_C4 ==
    (last.pass # "none" /\ ArityMismatch(Callee)) => nodes = last.pre /\ ~crashed

\* hvp_backward returned from a node of the wrong arity while a leaf was live
Wit_C4 ==
    /\ Returned /\ last.pass = "hvp_backward" /\ ArityMismatch(Callee)
    /\ nodes[1].val_epoch = g.cur_val_epoch_
    /\ nodes[last.node].gradient # 0

\* C5: a rule invoked on a node with a null input returns without touching any
\* slot or tag, for the n-ary rules as for the unary and binary ones.
Inv_C5 ==
    (/\ last.pass # "none"
     /\ ~IsLeaf(Callee)
     /\ \E k \in DOMAIN Callee.inputs : Callee.inputs[k] = NULL) =>
        nodes = last.pre /\ ~crashed

RECURSIVE SumOver(_, _)
\* f[1] + ... + f[k]
SumOver(f, k) == IF k = 0 THEN 0 ELSE SumOver(f, k - 1) + f[k]

VarIds == {i \in Ids : nodes[i].op = "Var"}

\* a reverse pass over the whole graph has just ended
PassDone(pass) == phase = "idle" /\ last.pass = pass /\ last.node = 1 /\ ~crashed

\* sum over the Var leaves of gradient_i * dot_i
Vjp == SumOver([i \in Ids |-> IF i \in VarIds
                              THEN LiveG(nodes[i]) * nodes[i].dot ELSE 0], N)

\* C6: after forward, forward_dot and a backward pass seeded with gradient 1 at
\* the output, the sum over the Var leaves of gradient * dot is the output's dot.
Inv_C6 == PassDone("backward") => Vjp = nodes[N].dot

\* the same on a graph whose gradient slots no earlier pass has written
Vjp_first_pass ==
    (PassDone("backward") /\ g.cur_grad_epoch_ = 1) => Vjp = nodes[N].dot

\* sum over the Var leaves of u_i * grad_dot_i(v) and of v_i * grad_dot_i(u):
\* v and grad_dot(v) are what the caller kept in prev, u and grad_dot(u) are in
\* the nodes
uHv == SumOver([i \in Ids |-> IF i \in VarIds
                              THEN nodes[i].dot * prev[i].grad_dot ELSE 0], N)
vHu == SumOver([i \in Ids |-> IF i \in VarIds
                              THEN prev[i].dot * LiveGd(nodes[i]) ELSE 0], N)

\* C7: after hvp passes seeded <<1, 0>> at the output with tangent v and then with
\* tangent u, sum u_i * grad_dot_i(v) equals sum v_i * grad_dot_i(u).
Inv_C7 == (PassDone("hvp_backward") /\ prev # <<>>) => uHv = vHu

\* two different tangents, a Multiply of arity 3 with a zero among its values,
\* and a product that is not zero
Wit_C7 ==
    /\ PassDone("hvp_backward") /\ prev # <<>>
    /\ \E i \in VarIds : nodes[i].dot # prev[i].dot
    /\ \E n \in Ids : /\ nodes[n].op = "Multiply" /\ Len(nodes[n].inputs) >= 3
                      /\ \E k \in DOMAIN nodes[n].inputs :
                            nodes[nodes[n].inputs[k]].value = 0
    /\ uHv # 0

\* C8: hvp_backward of a Multiply node adds to each input i
\* w * prod_{j # i} v_j of gradient and
\* wd * prod_{j # i} v_j + w * sum_{k # i} dot_k * prod_{l # i, k} v_l of
\* grad_dot, for every arity and with zeros among the values.
Inv_C8 ==
    (Returned /\ last.pass = "hvp_backward" /\ Callee.op = "Multiply") =>
        LET v == GatherVals(last.pre, last.node, 0)
            d == GatherDots(last.pre, last.node, 0)
            m == Len(v)
        IN  \A i \in 1 .. m :
              LET x == Callee.inputs[i]
              IN  /\ LiveG(nodes[x]) = LiveG(last.pre[x])
                        + Callee.gradient * ProdExcept(v, m, {i})
                  /\ LiveGd(nodes[x]) = LiveGd(last.pre[x])
                        + Callee.grad_dot * ProdExcept(v, m, {i})
                        + Callee.gradient * CrossSum(v, d, i, m)

\* the worked example: (a, b, c) = (2, 3, 5), dots (1, 0, 0), w = 1, wd = 0
Wit_C8 ==
    /\ Returned /\ last.pass = "hvp_backward" /\ Callee.op = "Multiply"
    /\ GatherVals(last.pre, last.node, 0) = <<2, 3, 5>>
    /\ GatherDots(last.pre, last.node, 0) = <<1, 0, 0>>
    /\ Callee.gradient = 1 /\ Callee.grad_dot = 0
    /\ <<LiveG(nodes[1]), LiveG(nodes[2]), LiveG(nodes[3])>> = <<15, 10, 6>>
    /\ <<LiveGd(nodes[1]), LiveGd(nodes[2]), LiveGd(nodes[3])>> = <<0, 5, 3>>

\* the one zero of the vector lies between positions 1 and 3: the mid product
\* of that pair takes its early exit, and the grad_dot of the zero factor is
\* not zero
Wit_C8_zero ==
    /\ Returned /\ last.pass = "hvp_backward" /\ Callee.op = "Multiply"
    /\ GatherVals(last.pre, last.node, 0) = <<2, 0, 1>>
    /\ GatherDots(last.pre, last.node, 0) = <<1, 1, 1>>
    /\ LiveGd(nodes[2]) # 0

\* winner and loser of a Max node in state ns
Winner(ns, nd) ==
    IF ns[nd.inputs[1]].value >= ns[nd.inputs[2]].value
    THEN nd.inputs[1] ELSE nd.inputs[2]
Loser(ns, nd) ==
    IF ns[nd.inputs[1]].value >= ns[nd.inputs[2]].value
    THEN nd.inputs[2] ELSE nd.inputs[1]

\* C9: Max writes the winner's value and dot, adds its gradient (and grad_dot) to
\* the winner only, the first input on ties, and leaves the loser as it was.
Inv_C9 ==
    (Returned /\ Callee.op = "Max" /\ binary_ok(Callee)) =>
        LET win == Winner(last.pre, Callee)
            lose == Loser(last.pre, Callee)
            n == last.node
        IN  /\ (last.pre[Callee.inputs[1]].value = last.pre[Callee.inputs[2]].value)
                   => win = Callee.inputs[1]
            /\ last.pass = "forward" => nodes[n].value = last.pre[win].value
            /\ last.pass = "forward_dot" => nodes[n].dot = last.pre[win].dot
            /\ last.pass \in ReversePasses =>
                   /\ LiveG(nodes[win]) = LiveG(last.pre[win]) + Callee.gradient
                   /\ lose # win => nodes[lose] = last.pre[lose]
            /\ last.pass = "backward" => LiveGd(nodes[win]) = LiveGd(last.pre[win])
            /\ last.pass = "hvp_backward" =>
                   LiveGd(nodes[win]) = LiveGd(last.pre[win]) + Callee.grad_dot

\* a tie: backward gave the whole gradient to the first input
Wit_C9 ==
    /\ Returned /\ Callee.op = "Max" /\ binary_ok(Callee) /\ last.pass = "backward"
    /\ Callee.inputs[1] # Callee.inputs[2]
    /\ last.pre[Callee.inputs[1]].value = last.pre[Callee.inputs[2]].value
    /\ Callee.gradient # 0
    /\ LiveG(nodes[Callee.inputs[1]]) = Callee.gradient
    /\ LiveG(nodes[Callee.inputs[2]]) = 0

\* the node the call was made on reads a singular point: Divide with b = 0, or
\* Log at 0
Singular ==
    \/ Callee.op = "Divide" /\ binary_ok(Callee)
          /\ last.pre[Callee.inputs[2]].value = 0
    \/ Callee.op = "Log" /\ unary_ok(Callee)
          /\ last.pre[Callee.inputs[1]].value = 0

\* C10: at a singular point Divide writes value 0, Divide and Log write dot 0, and
\* backward and hvp_backward add 0 to the gradient and grad_dot of every input.
Inv_C10 ==
    (Returned /\ Singular) =>
        /\ (last.pass = "forward" /\ Callee.op = "Divide") => nodes[last.node].value = 0
        /\ last.pass = "forward_dot" => nodes[last.node].dot = 0
        /\ last.pass \in ReversePasses =>
              \A k \in DOMAIN Callee.inputs :
                  LET x == Callee.inputs[k]
                  IN  /\ LiveG(nodes[x]) = LiveG(last.pre[x])
                      /\ LiveGd(nodes[x]) = LiveGd(last.pre[x])
                      /\ nodes[x].grad_epoch = g.cur_grad_epoch_
                      /\ nodes[x].gradient = LiveG(last.pre[x])

\* hvp_backward on a / 0 with a, a's dot, n.gradient and n.grad_dot all non-zero
Wit_C10 ==
    /\ Returned /\ Singular /\ Callee.op = "Divide" /\ last.pass = "hvp_backward"
    /\ last.pre[Callee.inputs[1]].value # 0
    /\ last.pre[Callee.inputs[1]].dot # 0
    /\ Callee.gradient # 0 /\ Callee.grad_dot # 0
    /\ nodes[Callee.inputs[1]].grad_epoch = g.cur_grad_epoch_
    /\ nodes[Callee.inputs[1]].gradient = 0

\* the four epoch tags of a node and the four counters of the graph, in the same
\* order
TagsOf(nd) == <<nd.val_epoch, nd.dot_epoch, nd.grad_epoch, nd.gdot_epoch>>
CountersOf(gr) == <<gr.cur_val_epoch_, gr.cur_dot_epoch_,
                    gr.cur_grad_epoch_, gr.cur_gdot_epoch_>>

TagsBounded ==
    \A i \in Ids : \A k \in 1 .. 4 : TagsOf(nodes[i])[k] <= CountersOf(g)[k]

\* C11: no step of a pass start or of a rule lowers an epoch tag of a node or a
\* counter of the graph, and no tag is ever above its counter.
Inv_C11 ==
    /\ TagsBounded
    /\ [][\A k \in 1 .. 4 :
             /\ CountersOf(g')[k] >= CountersOf(g)[k]
             /\ \A i \in Ids :
                   /\ TagsOf(nodes'[i])[k] >= TagsOf(nodes[i])[k]
                   /\ TagsOf(nodes'[i])[k] <= CountersOf(g')[k]]_vars

\* a rule moved a gradient tag from the epoch before to the current one, on a
\* node whose value tag forward_dot has touched
Wit_C11 ==
    /\ Returned /\ last.pass \in ReversePasses
    /\ g.cur_grad_epoch_ = 2
    /\ \E i \in Ids : /\ last.pre[i].grad_epoch = 1
                      /\ nodes[i].grad_epoch = 2
                      /\ nodes[i].val_epoch = g.cur_val_epoch_
                      /\ nodes[i].dot_epoch = g.cur_dot_epoch_

RECURSIVE RunSeq(_, _, _)
\* the first k invocations of the list w, one after the other, from state ns
RunSeq(ns, w, k) ==
    IF k = 0 THEN ns
    ELSE Rule(w[k][1], RunSeq(ns, w, k - 1), g, w[k][2], 0)

\* the invocations thread t has completed
DoneBy(t) == SubSeq(thr.work[t], 1, thr.k[t] - 1)

ParDone == thr # NoThreads /\ \A t \in Threads : ~Busy(t)

\* C12: however the steps of the two threads interleave, the nodes are what
\* running the completed invocations one after the other gives, thread 1 first
\* or thread 2 first; in particular at the end.
Inv_C12 ==
    thr # NoThreads =>
        /\ nodes = RunSeq(thr.init, DoneBy(1) \o DoneBy(2),
                          Len(DoneBy(1)) + Len(DoneBy(2)))
        /\ nodes = RunSeq(thr.init, DoneBy(2) \o DoneBy(1),
                          Len(DoneBy(1)) + Len(DoneBy(2)))

\* both threads are inside a Multiply rule, each with its own inputs in its
\* vectors
Wit_C12 ==
    /\ thr # NoThreads
    /\ \A t \in Threads : /\ Busy(t) /\ thr.pc[t] = "filled"
                          /\ nodes[Cur(t)[2]].op = "Multiply"
    /\ thr.sc[1].mul_vals # thr.sc[2].mul_vals
    /\ Len(thr.sc[1].mul_vals) = 3

\* both threads have finished and the derivatives are not all zero
Wit_C12_done ==
    /\ ParDone
    /\ nodes[1].grad_dot # 0 /\ nodes[6].gradient # 0

\* backward has just run on a * b * c at (2, 0, 5) with dots (1, 0, 1) and
\* n.gradient = 1, its inputs not yet live
Scenario4 ==
    /\ Returned /\ last.pass = "backward" /\ Callee.op = "Multiply"
    /\ GatherVals(last.pre, last.node, 0) = <<2, 0, 5>>
    /\ GatherDots(last.pre, last.node, 0) = <<1, 0, 1>>
    /\ Callee.gradient = 1
    /\ \A i \in 1 .. 3 : last.pre[i].grad_epoch # g.cur_grad_epoch_

\* C13 as stated: the value is 0 and the gradient is 0 at a, b and c.
Inv_C13_as_stated ==
    Scenario4 =>
        /\ nodes[last.node].value = 0
        /\ <<LiveG(nodes[1]), LiveG(nodes[2]), LiveG(nodes[3])>> = <<0, 0, 0>>

\* C13: the value is 0 and the gradients are (b*c, a*c, a*b) = (0, 10, 0): the
\* zero factor itself receives the product of the other two.
Inv_C13 ==
    Scenario4 =>
        /\ nodes[last.node].value = 0
        /\ <<LiveG(nodes[1]), LiveG(nodes[2]), LiveG(nodes[3])>> = <<0, 10, 0>>

Wit_C13 == Scenario4 /\ nodes[2].gradient = 10 /\ nodes[last.node].val_epoch = 1

\* what the invocation on last.node added to the gradient / grad_dot of node i
AddedG(i) == ContribG(last.pre, last.node, i, Len(Callee.inputs), 0)
AddedGd(i) == ContribGd(last.pre, last.node, i, Len(Callee.inputs), 0)

\* a reverse rule has just returned without reading through a null input
ReverseReturned == Returned /\ last.pass \in ReversePasses /\ ~last.ub

\* node i is an input the rule accumulated into
AccumulatedInto(i) == Acts(Callee) /\ i \in Targets(last.pre, Callee)

\* C14: a slot is reset only by the first accumulation into it in a pass. After
\* a reverse rule returns: a node it did not accumulate into is as before; a
\* slot that was already live holds its old value plus what the rule added (no
\* second reset); a slot that was not live holds exactly what the rule added
\* through all of its input positions (one reset, before the first addition).
Inv_C14 ==
    ReverseReturned =>
        \A i \in Ids :
            /\ ~AccumulatedInto(i) => nodes[i] = last.pre[i]
            /\ AccumulatedInto(i) =>
                  /\ nodes[i].gradient =
                        (IF last.pre[i].grad_epoch = g.cur_grad_epoch_
                         THEN last.pre[i].gradient ELSE 0) + AddedG(i)
                  /\ last.pass = "hvp_backward" =>
                        nodes[i].grad_dot =
                           (IF last.pre[i].gdot_epoch = g.cur_gdot_epoch_
                            THEN last.pre[i].grad_dot ELSE 0) + AddedGd(i)
                  /\ last.pass = "backward" =>
                        /\ nodes[i].grad_dot = last.pre[i].grad_dot
                        /\ nodes[i].gdot_epoch = last.pre[i].gdot_epoch

\* in the second hvp pass a second consumer adds to a slot that the first
\* consumer of this pass has reset and written: both slots keep what the first
\* one added
Wit_C14 ==
    /\ ReverseReturned /\ last.pass = "hvp_backward" /\ g.cur_grad_epoch_ = 2
    /\ \E i \in Ids :
          /\ AccumulatedInto(i)
          /\ last.pre[i].grad_epoch = 2 /\ last.pre[i].gdot_epoch = g.cur_gdot_epoch_
          /\ last.pre[i].gradient # 0 /\ last.pre[i].grad_dot # 0
          /\ AddedG(i) # 0
          /\ nodes[i].gradient = last.pre[i].gradient + AddedG(i)

\* one rule adds twice to the same input whose slot was stale and not zero: one
\* reset, two additions
Wit_C14_twice ==
    /\ ReverseReturned /\ Callee.op \in {"Add", "Multiply"}
    /\ Len(Callee.inputs) = 2 /\ Callee.inputs[1] = Callee.inputs[2]
    /\ last.pre[Callee.inputs[1]].grad_epoch # g.cur_grad_epoch_
    /\ last.pre[Callee.inputs[1]].gradient # 0
    /\ nodes[Callee.inputs[1]].gradient = AddedG(Callee.inputs[1])
    /\ AddedG(Callee.inputs[1]) # 0

\* a reverse rule has just returned from a node n = op(x, x) whose input x was
\* not live in the slots the pass accumulates into: gradient, and in
\* hvp_backward grad_dot too
Aliased(op) ==
    /\ ReverseReturned /\ Callee.op = op /\ Len(Callee.inputs) = 2
    /\ Callee.inputs[1] = Callee.inputs[2]
    /\ last.pre[Callee.inputs[1]].grad_epoch # g.cur_grad_epoch_
    /\ last.pass = "hvp_backward" =>
          last.pre[Callee.inputs[1]].gdot_epoch # g.cur_gdot_epoch_

\* C15: for n = x * x, x + x, x - x with x not live, backward and hvp_backward
\* leave in x the sum of the contributions of both positions: gradient
\* 2 * w * x.value, 2 * w, 0 and (hvp_backward) grad_dot
\* 2 * (wd * x.value + w * x.dot), 2 * wd, 0; backward leaves grad_dot and its
\* tag as they were.
Inv_C15 ==
    \A op \in {"Multiply", "Add", "Subtract"} :
        Aliased(op) =>
            LET x == nodes[Callee.inputs[1]]
                w == Callee.gradient
                wd == Callee.grad_dot
            IN  /\ x.grad_epoch = g.cur_grad_epoch_
                /\ x.gradient = CASE op = "Multiply" -> 2 * w * x.value
                                  [] op = "Add" -> 2 * w
                                  [] op = "Subtract" -> 0
                /\ last.pass = "hvp_backward" =>
                      /\ x.gdot_epoch = g.cur_gdot_epoch_
                      /\ x.grad_dot =
                            CASE op = "Multiply" -> 2 * (wd * x.value + w * x.dot)
                              [] op = "Add" -> 2 * wd
                              [] op = "Subtract" -> 0
                /\ last.pass = "backward" =>
                      /\ x.gdot_epoch = last.pre[Callee.inputs[1]].gdot_epoch
                      /\ x.grad_dot = last.pre[Callee.inputs[1]].grad_dot

\* backward on x * x with x.value and w non-zero and a stale non-zero gradient
\* in x, in a pass after the first: x ends with 2 * w * x.value
Wit_C15 ==
    /\ Aliased("Multiply") /\ last.pass = "backward"
    /\ g.cur_grad_epoch_ > 1
    /\ last.pre[Callee.inputs[1]].gradient # 0
    /\ nodes[Callee.inputs[1]].value # 0 /\ Callee.gradient # 0
    /\ nodes[Callee.inputs[1]].gradient
          = 2 * Callee.gradient * nodes[Callee.inputs[1]].value

\* backward on x + x and on x - x with w non-zero
Wit_C15_add ==
    /\ Aliased("Add") /\ last.pass = "backward" /\ Callee.gradient # 0
    /\ nodes[Callee.inputs[1]].gradient = 2 * Callee.gradient
Wit_C15_subtract ==
    /\ Aliased("Subtract") /\ last.pass = "backward" /\ Callee.gradient # 0
    /\ g.cur_grad_epoch_ > 1
    /\ nodes[Callee.inputs[1]].gradient = 0

\* hvp_backward on x * x with x.value, x.dot, w and wd all non-zero and a stale
\* non-zero gradient in x
Wit_C15_hvp ==
    /\ Aliased("Multiply") /\ last.pass = "hvp_backward"
    /\ last.pre[Callee.inputs[1]].gradient # 0
    /\ nodes[Callee.inputs[1]].value # 0 /\ nodes[Callee.inputs[1]].dot # 0
    /\ Callee.gradient # 0 /\ Callee.grad_dot # 0
    /\ nodes[Callee.inputs[1]].grad_dot
          = 2 * (Callee.grad_dot * nodes[Callee.inputs[1]].value
                 + Callee.gradient * nodes[Callee.inputs[1]].dot)

\* the value slot of node i is live
LiveV(i) == nodes[i].val_epoch = g.cur_val_epoch_

\* what the forward rule of node i computes from the values its inputs hold
Fresh(i) == nodes[i].value = Rule("forward", nodes, g, i, 0)[i].value

\* C16: once a value pass has begun, null inputs aside, and outside the moment between the
\* caller's feeding of new values and the start of the next value pass, every
\* operator node whose val_epoch equals cur_val_epoch_ holds the value its
\* forward rule computes from its inputs.
Inv_C16 ==
    (g.cur_val_epoch_ > 0 /\ phase # "refed") =>
        \A i \in Ids :
            (~IsLeaf(nodes[i]) /\ ~DerefsNull(nodes[i]) /\ LiveV(i)) => Fresh(i)

\* the same for the nodes the value pass of the current epoch has visited
Inv_C16_visited ==
    (Returned /\ last.pass = "forward" /\ LiveV(last.node)) => Fresh(last.node)

\* C17: whatever a worker thread's scratch vectors held when a rule was
\* entered (left by an earlier invocation of any arity, or dirty from the
\* start), the rule leaves the nodes exactly as the rule run on vectors of its
\* own leaves them: the result depends on the inputs and the node's own
\* gradient and grad_dot only.
Inv_C17 ==
    (phase = "parallel" /\ Returned) =>
        nodes = Rule(last.pass, last.pre, g, last.node, 0)

\* thread 1, whose vectors started dirty at length 4, has run Multiply's
\* forward_dot at arity 3 (node 4) and then at arity 2 (node 5), with a
\* non-zero result
Wit_C17 ==
    /\ phase = "parallel" /\ Returned
    /\ last.pass = "forward_dot" /\ last.node = 5
    /\ thr.sc[1].sm_y = DirtyScratch.sm_y
    /\ Len(thr.sc[1].mul_vals) = 2 /\ Len(thr.sc[1].mul_pre) = 3
    /\ nodes[5].dot # 0

\* thread 2 has run Multiply's backward at arity 3 and then Softmax's backward
\* at arity 1 on the vectors its earlier passes left, the Softmax node holding
\* a non-zero gradient
Wit_C17_reverse ==
    /\ phase = "parallel" /\ Returned
    /\ last.pass = "backward" /\ last.node = 8
    /\ Len(thr.sc[2].mul_vals) = 3
    /\ Len(thr.sc[2].sm_y) = 1
    /\ nodes[8].gradient # 0

====
